---- MODULE Spec2Model ----
(***************************************************************************)
(* A model of tensorboard/plugins/core/color_sampler.py: the OKLCH colour  *)
(* engine (forward and reverse conversion, palette generators, ColorMap,   *)
(* colors_for_runs, lighten and darken).                                   *)
(*                                                                         *)
(* Python floats are modelled as fixed-point integers: a real x is the     *)
(* integer nearest to x * Scale.  Every arithmetic step of the source is   *)
(* carried out on these integers, rounding to the nearest unit, and every  *)
(* intermediate value stays inside TLC's 32-bit integers.  Hex strings are *)
(* sequences of one-character strings.                                     *)
(***************************************************************************)
EXTENDS Integers, Sequences, FiniteSets, TLC

Scale == 10^6
Half == 10^3

\* An expensive numeric step is a function on Int, not an operator: TLC
\* evaluates the argument of a function application once, before the body.
Triple == Int \X Int \X Int

Abs(x) == IF x < 0 THEN 0 - x ELSE x

\* Python's builtin max and min on two numbers.
max(a, b) == IF b > a THEN b ELSE a
min(a, b) == IF b < a THEN b ELSE a

(***************************************************************************)
(* The state of the program.                                               *)
(***************************************************************************)

VARIABLES
  op,    \* the operation that ran last, "none" before any
  args,  \* its arguments
  ret,   \* the value it returned
  exc,   \* the exception it raised, NoExc if none
  fwd,   \* the OKLCH triples it handed to _oklch_to_hex, in order
  cm,    \* the ColorMap instance: whether built, and its self._colors
  log,   \* history: the calls completed so far, with their results
  files, \* per log directory, the content of .tensorboard/default_profile.json
  _superimposed_card_counter,  \* profile_writer's module-level counter
  written,  \* history: per log directory, the profile last written with success
  cards,    \* history: the ids of the cards made, with the time of each call
  threads,  \* per thread, where it is in create_superimposed_card
  meta_path,     \* sys.meta_path, the import finders in order
  sys_modules,   \* sys.modules, module name to module object
  site_packages, \* the top-level packages the path finder can import
  installs       \* history: the number of install() calls made

vars ==
  <<op, args, ret, exc, fwd, cm, log, files, _superimposed_card_counter,
    written, cards, threads, meta_path, sys_modules, site_packages, installs>>

\* The state of the colour engine's caller, of profile_writer and of the
\* import system.
engine_vars == <<op, args, ret, exc, fwd, cm, log>>
profile_vars == <<files, _superimposed_card_counter, written, cards, threads>>
import_vars == <<meta_path, sys_modules, site_packages, installs>>

\* body with v bound to the value of e, e evaluated once.
With(e, F(_)) == CHOOSE out \in {F(v) : v \in {e}} : TRUE

(***************************************************************************)
(* Fixed-point arithmetic.                                                 *)
(***************************************************************************)

\* a * b on two scaled reals: the nearest integer to a*b/Scale, computed on
\* half-words so that no intermediate product leaves 32 bits.
MulFix[a \in Int, b \in Int] ==
  LET a1 == a \div Half
      a0 == a % Half
      b1 == b \div Half
      b0 == b % Half
      m  == a1 * b0 + a0 * b1
      m1 == m \div Half
      m0 == m % Half
  IN  a1 * b1 + m1 + ((m0 * Half + a0 * b0 + (Scale \div 2)) \div Scale)

\* Long division: k more decimal digits of r/b appended to q, the last rounded.
DivStep[q \in Int, r \in Int, b \in Int, k \in Int] ==
  IF k = 0 THEN q + (IF 2 * r >= b THEN 1 ELSE 0)
  ELSE DivStep[q * 10 + ((r * 10) \div b), (r * 10) % b, b, k - 1]

\* a / b on two scaled reals, b # 0: the nearest integer to a*Scale/b.
DivFix[a \in Int, b \in Int] ==
  IF b < 0 THEN DivStep[(0 - a) \div (0 - b), (0 - a) % (0 - b), 0 - b, 6]
  ELSE DivStep[a \div b, a % b, b, 6]

\* i * x / n for integers i, n (n > 0) and a scaled real x, as one real
\* expression: floor(i*x/n) without forming i*x.
MulDivInt[i \in Int, x \in Int, n \in Int] ==
  i * (x \div n) + ((i * (x % n)) \div n)

\* x / n for a scaled real x and a Python int n > 0
div_int[x \in Int, n \in Int] == (2 * x + n) \div (2 * n)

\* The smallest y in lo..hi with y*y >= x (x >= 0).
SqrtBis[x \in Int, lo \in Int, hi \in Int] ==
  IF lo >= hi THEN lo
  ELSE LET mid == (lo + hi) \div 2
       IN  IF MulFix[mid, mid] >= x THEN SqrtBis[x, lo, mid]
           ELSE SqrtBis[x, mid + 1, hi]

\* The smallest y in lo..hi with y*y*y >= x (x >= 0).
CbrtBis[x \in Int, lo \in Int, hi \in Int] ==
  IF lo >= hi THEN lo
  ELSE LET mid == (lo + hi) \div 2
       IN  IF MulFix[MulFix[mid, mid], mid] >= x THEN CbrtBis[x, lo, mid]
           ELSE CbrtBis[x, mid + 1, hi]

Pow5[y \in Int] == MulFix[MulFix[MulFix[y, y], MulFix[y, y]], y]

\* The smallest y in lo..hi with y^5 >= x (x >= 0).
Root5Bis[x \in Int, lo \in Int, hi \in Int] ==
  IF lo >= hi THEN lo
  ELSE LET mid == (lo + hi) \div 2
       IN  IF Pow5[mid] >= x THEN Root5Bis[x, lo, mid]
           ELSE Root5Bis[x, mid + 1, hi]

math_sqrt[x \in Int] == SqrtBis[x, 0, max(x, Scale)]
Cbrt[x \in Int] == CbrtBis[x, 0, max(x, Scale)]
Root5[x \in Int] == Root5Bis[x, 0, max(x, Scale)]

\* x ** (1 / 2.4) = x^(5/12), x >= 0: the twelfth root, raised to the fifth.
PowInv24[x \in Int] == Pow5[Cbrt[math_sqrt[math_sqrt[x]]]]

\* u ** 2.4 = u^2 * r5^2 with r5 the fifth root of u, u >= 0.
Pow24With[u \in Int, r5 \in Int] == MulFix[MulFix[MulFix[u, u], r5], r5]
Pow24[u \in Int] == Pow24With[u, Root5[u]]

\* x ** (1 / 3), x >= 0.
PowThird[x \in Int] == Cbrt[x]

(***************************************************************************)
(* The math module: radians, degrees, cos, sin, atan2.                     *)
(***************************************************************************)

Pi == 3141593
HalfPi == 1570796
TwoPi == 6283185

\* H * pi/180, pi/180 = 0.017453 + 0.000000292520
math_radians[H \in Int] == MulFix[H, 17453] + MulFix[MulFix[H, 292520], 1]

\* x * 180/pi
math_degrees[x \in Int] == MulFix[x, 57295780]

\* Taylor polynomials on [0, pi/4], in x2 = x*x.
CosPoly[x2 \in Int] ==
  Scale - MulFix[x2, 500000 - MulFix[x2, 41667 - MulFix[x2, 1389 - MulFix[x2, 25]]]]

SinPoly[x2 \in Int] ==
  Scale - MulFix[x2, 166667 - MulFix[x2, 8333 - MulFix[x2, 198 - MulFix[x2, 3]]]]

CosSmall[x \in Int] == CosPoly[MulFix[x, x]]
SinSmall[x \in Int] == MulFix[x, SinPoly[MulFix[x, x]]]

\* cos and sin on the first quadrant, 0 <= x <= pi/2.
CosQ[x \in Int] ==
  IF x <= HalfPi \div 2 THEN CosSmall[x] ELSE SinSmall[HalfPi - x]
SinQ[x \in Int] ==
  IF x <= HalfPi \div 2 THEN SinSmall[x] ELSE CosSmall[HalfPi - x]

\* cos and sin of an angle r reduced to 0 <= r < 2 pi.
CosTurn[r \in Int] ==
  IF r <= HalfPi THEN CosQ[r]
  ELSE IF r <= Pi THEN 0 - CosQ[Pi - r]
  ELSE IF r <= Pi + HalfPi THEN 0 - CosQ[r - Pi]
  ELSE CosQ[TwoPi - r]

SinTurn[r \in Int] ==
  IF r <= HalfPi THEN SinQ[r]
  ELSE IF r <= Pi THEN SinQ[Pi - r]
  ELSE IF r <= Pi + HalfPi THEN 0 - SinQ[r - Pi]
  ELSE 0 - SinQ[TwoPi - r]

math_cos[x \in Int] == CosTurn[x % TwoPi]
math_sin[x \in Int] == SinTurn[x % TwoPi]

\* The largest angle t in lo..hi of the first quadrant with
\* ay*cos(t) - ax*sin(t) >= 0, that is tan(t) <= ay/ax.
AtanBis[ay \in Int, ax \in Int, lo \in Int, hi \in Int] ==
  IF lo >= hi THEN lo
  ELSE LET mid == (lo + hi + 1) \div 2
       IN  IF MulFix[ay, CosQ[mid]] - MulFix[ax, SinQ[mid]] >= 0
           THEN AtanBis[ay, ax, mid, hi]
           ELSE AtanBis[ay, ax, lo, mid - 1]

\* atan2(y, x) from the angle t of (|x|, |y|) in the first quadrant.
AtanQuadrant[y \in Int, x \in Int, t \in Int] ==
  IF x >= 0 /\ y >= 0 THEN t
  ELSE IF x < 0 /\ y >= 0 THEN Pi - t
  ELSE IF x < 0 /\ y < 0 THEN t - Pi
  ELSE 0 - t

math_atan2[y \in Int, x \in Int] ==
  IF x = 0 /\ y = 0 THEN 0
  ELSE AtanQuadrant[y, x, AtanBis[Abs(y), Abs(x), 0, HalfPi]]

(***************************************************************************)
(* Python's round() and int formatting.                                    *)
(***************************************************************************)

\* int(round(v)) of a scaled real v: to the nearest integer, ties to even.
py_round[v \in Int] ==
  LET q == v \div Scale
      r == v % Scale
  IN  IF 2 * r > Scale THEN q + 1
      ELSE IF 2 * r = Scale THEN q + (q % 2)
      ELSE q

HexDigits == <<"0", "1", "2", "3", "4", "5", "6", "7",
               "8", "9", "a", "b", "c", "d", "e", "f">>

\* The lowercase hex digits of a natural number, most significant first.
hex_digits[v \in Nat] ==
  IF v < 16 THEN <<HexDigits[v + 1]>>
  ELSE hex_digits[v \div 16] \o <<HexDigits[(v % 16) + 1]>>

\* f"{v:02x}": sign, then zero padding to a total width of 2, then digits.
format_02x[v \in Int] ==
  LET body == hex_digits[Abs(v)]
      sign == IF v < 0 THEN <<"-">> ELSE <<>>
      pad  == IF Len(sign) + Len(body) < 2 THEN <<"0">> ELSE <<>>
  IN  sign \o pad \o body

(***************************************************************************)
(* OKLCH -> OKLAB -> linear sRGB -> sRGB -> hex.                            *)
(***************************************************************************)

\* a = C * cos(h_rad), b = C * sin(h_rad) for h_rad = math.radians(H)
oklab_of_radians[L \in Int, C \in Int, h_rad \in Int] ==
  <<L, MulFix[C, math_cos[h_rad]], MulFix[C, math_sin[h_rad]]>>

_oklch_to_oklab[lch \in Triple] ==
  oklab_of_radians[lch[1], lch[2], math_radians[lch[3]]]

Cube[x \in Int] == MulFix[MulFix[x, x], x]

\* LMS to linear sRGB
lms_to_linear_srgb[l \in Int, m \in Int, s \in Int] ==
  << MulFix[4076742, l] - MulFix[3307712, m] + MulFix[230970, s],
     0 - MulFix[1268438, l] + MulFix[2609757, m] - MulFix[341319, s],
     0 - MulFix[4196, l] - MulFix[703419, m] + MulFix[1707615, s] >>

\* OKLAB to LMS, each value cubed, then LMS to linear sRGB
_oklab_to_linear_srgb[lab \in Triple] ==
  lms_to_linear_srgb[
    Cube[lab[1] + MulFix[396338, lab[2]] + MulFix[215804, lab[3]]],
    Cube[lab[1] - MulFix[105561, lab[2]] - MulFix[63854, lab[3]]],
    Cube[lab[1] - MulFix[89484, lab[2]] - MulFix[1291486, lab[3]]]]

_linear_to_srgb[x \in Int] ==
  IF x <= 3131 THEN MulFix[12920000, x]
  ELSE MulFix[1055000, PowInv24[x]] - 55000

\* A faulty _clamp: the value is returned as it is.
_clamp_identity(x, lo, hi) == x

_clamp(x, lo, hi) == max(lo, min(hi, x))

\* int(round(_clamp(c) * 255)) for one gamma-corrected channel c
channel_byte[c \in Int] == py_round[_clamp(c, 0, Scale) * 255]

\* The three channel integers _oklch_to_hex formats, from linear sRGB.
channel_bytes[linear \in Triple] ==
  [k \in 1..3 |-> channel_byte[_linear_to_srgb[linear[k]]]]

\* f"#{r:02x}{g:02x}{b:02x}"
format_hex[ch \in Triple] ==
  <<"#">> \o format_02x[ch[1]] \o format_02x[ch[2]] \o format_02x[ch[3]]

_oklch_to_hex(L, C, H) ==
  format_hex[channel_bytes[_oklab_to_linear_srgb[_oklch_to_oklab[<<L, C, H>>]]]]

(***************************************************************************)
(* Results of a call: a value, or the exception the call raised.           *)
(***************************************************************************)

NoExc == "none"
Returned(v) == [exc |-> NoExc, val |-> v]
Raised(e) == [exc |-> e, val |-> <<>>]

\* One loop iteration of a generator: the OKLCH triple it hands to
\* _oklch_to_hex, or the exception raised while computing it.
Item(L, C, H) == [exc |-> NoExc, L |-> L, C |-> C, H |-> H]
ItemRaised(e) == [exc |-> e, L |-> 0, C |-> 0, H |-> 0]

\* The index of the first iteration that raises, 0 if none does.
FirstRaise(items) ==
  LET bad == {k \in 1..Len(items) : items[k].exc # NoExc}
  IN  IF bad = {} THEN 0 ELSE CHOOSE k \in bad : \A j \in bad : k <= j

\* The triples handed to _oklch_to_hex, in call order: those of the
\* iterations before the first that raises.
Handed(items) ==
  With(FirstRaise(items), LAMBDA k :
    [j \in 1..(IF k = 0 THEN Len(items) ELSE k - 1) |->
       <<items[j].L, items[j].C, items[j].H>>])

\* What a call of the public API did: the exception it raised or the value it
\* returned, and the OKLCH triples it handed to _oklch_to_hex on the way.
Result(v, handed) == [exc |-> NoExc, val |-> v, handed |-> handed]
Failure(e, handed) == [exc |-> e, val |-> <<>>, handed |-> handed]

\* colors.append(_oklch_to_hex(...)) for every iteration, then return colors;
\* an iteration that raises ends the call.
Colors(its) ==
  With(its, LAMBDA items :
    With(FirstRaise(items), LAMBDA k :
      IF k = 0
      THEN Result([j \in 1..Len(items) |->
                     _oklch_to_hex(items[j].L, items[j].C, items[j].H)],
                  Handed(items))
      ELSE Failure(items[k].exc, Handed(items))))

\* The Python int i as a scaled real.
Real(i) == i * Scale

FullTurn == 360 * Scale

\* a / b on two scaled reals: ZeroDivisionError when b is 0.
truediv(a, b) ==
  IF b = 0 THEN Raised("ZeroDivisionError") ELSE Returned(DivFix[a, b])

\* i * x / n for the ints i and n and the scaled real x.
mul_truediv(i, x, n) ==
  IF n = 0 THEN Raised("ZeroDivisionError") ELSE Returned(MulDivInt[i, x, n])

\* The rest of an iteration, F, once the quotient quot has been computed; the
\* iteration raises when the division did.
Bind(quot, F(_)) ==
  With(quot, LAMBDA q : IF q.exc # NoExc THEN ItemRaised(q.exc) ELSE F(q.val))

(***************************************************************************)
(* Public API: palette generators.                                         *)
(***************************************************************************)

DefaultLightness == 700000
DefaultChroma == 150000
DefaultHueStart == 0
DefaultHueRange == 360000000

\* A faulty loop of sample_colors: for i in range(1, n).
sample_colors_items_from_one(n, lightness, chroma, hue_start, hue_range) ==
  [k \in 1..(n - 1) |->
     Bind(mul_truediv(k, hue_range, n),
          LAMBDA q : Item(lightness, chroma, (hue_start + q) % FullTurn))]

\* A faulty loop of sample_colors: hue = (i * hue_range / n) % 360.
sample_colors_items_no_start(n, lightness, chroma, hue_start, hue_range) ==
  [k \in 1..n |->
     Bind(mul_truediv(k - 1, hue_range, n),
          LAMBDA q : Item(lightness, chroma, q % FullTurn))]

\* for i in range(n): hue = (hue_start + (i * hue_range / n)) % 360
sample_colors_items(n, lightness, chroma, hue_start, hue_range) ==
  [k \in 1..n |->
     Bind(mul_truediv(k - 1, hue_range, n),
          LAMBDA q : Item(lightness, chroma, (hue_start + q) % FullTurn))]

sample_colors(n, lightness, chroma, hue_start, hue_range) ==
  IF n <= 0 THEN Result(<<>>, <<>>)
  ELSE Colors(sample_colors_items(n, lightness, chroma, hue_start, hue_range))

VariedLMin == 550000
VariedLMax == 800000
VariedCMin == 120000
VariedCMax == 180000

\* A faulty loop of sample_colors_varied: on even i the lightness walks the
\* whole range, l_min + (l_max - l_min) * (1 - t).
sample_colors_varied_items_full_range(n, l_min, l_max, c_min, c_max) ==
  [k \in 1..n |->
     Bind(mul_truediv(k - 1, FullTurn, n), LAMBDA q :
     Bind(truediv(Real(k - 1), Real(max(n - 1, 1))), LAMBDA t :
       IF (k - 1) % 2 = 0
       THEN Item(l_min + MulFix[l_max - l_min, Scale - t],
                 c_min + MulFix[c_max - c_min, t],
                 q % FullTurn)
       ELSE Item(l_min + MulFix[l_max - l_min, 500000 + MulFix[t, 500000]],
                 c_max - MulFix[MulFix[c_max - c_min, t], 500000],
                 q % FullTurn)))]

\* for i in range(n): hue = (i * 360 / n) % 360; t = i / max(n - 1, 1); ...
sample_colors_varied_items(n, l_min, l_max, c_min, c_max) ==
  [k \in 1..n |->
     Bind(mul_truediv(k - 1, FullTurn, n), LAMBDA q :
     Bind(truediv(Real(k - 1), Real(max(n - 1, 1))), LAMBDA t :
       IF (k - 1) % 2 = 0
       THEN Item(l_min + MulFix[l_max - l_min, Scale - MulFix[t, 500000]],
                 c_min + MulFix[c_max - c_min, t],
                 q % FullTurn)
       ELSE Item(l_min + MulFix[l_max - l_min, 500000 + MulFix[t, 500000]],
                 c_max - MulFix[MulFix[c_max - c_min, t], 500000],
                 q % FullTurn)))]

sample_colors_varied(n, l_min, l_max, c_min, c_max) ==
  IF n <= 0 THEN Result(<<>>, <<>>)
  ELSE Colors(sample_colors_varied_items(n, l_min, l_max, c_min, c_max))

CategoricalLightness == 650000
CategoricalChroma == 180000

palette_categorical(n) ==
  sample_colors(n, CategoricalLightness, CategoricalChroma,
                DefaultHueStart, DefaultHueRange)

SequentialHue == 250000000

\* A faulty loop of palette_sequential: t = i // max(n - 1, 1).
palette_sequential_items_floordiv(n, hue) ==
  [k \in 1..n |->
     With(Real((k - 1) \div max(n - 1, 1)), LAMBDA t :
       Item(900000 - MulFix[t, 550000], 80000 + MulFix[t, 120000], hue))]

\* A faulty loop of palette_sequential: the ramp runs from dark to light.
palette_sequential_items_reversed(n, hue) ==
  [k \in 1..n |->
     Bind(truediv(Real(k - 1), Real(max(n - 1, 1))), LAMBDA t :
       Item(350000 + MulFix[t, 550000], 200000 - MulFix[t, 120000], hue))]

\* A faulty loop of palette_sequential: t = i / (n - 1).
palette_sequential_items_no_max(n, hue) ==
  [k \in 1..n |->
     Bind(truediv(Real(k - 1), Real(n - 1)), LAMBDA t :
       Item(900000 - MulFix[t, 550000], 80000 + MulFix[t, 120000], hue))]

\* for i in range(n): lightness = 0.9 - (i / max(n - 1, 1)) * 0.55; ...
palette_sequential_items(n, hue) ==
  [k \in 1..n |->
     Bind(truediv(Real(k - 1), Real(max(n - 1, 1))), LAMBDA t :
       Item(900000 - MulFix[t, 550000], 80000 + MulFix[t, 120000], hue))]

palette_sequential(n, hue) ==
  IF n <= 0 THEN Result(<<>>, <<>>)
  ELSE Colors(palette_sequential_items(n, hue))

DivergingHueLow == 250000000
DivergingHueHigh == 30000000

\* mid = (n - 1) / 2
diverging_mid(n) == DivFix[Real(n - 1), Real(2)]

\* A faulty loop of palette_diverging: on the high side
\* t = (i - mid) / (n - 1).
palette_diverging_items_skewed(n, hue_low, hue_high) ==
  [k \in 1..n |->
     With(diverging_mid(n), LAMBDA mid :
       IF Real(k - 1) < mid
       THEN Bind(IF mid > 0 THEN truediv(Real(k - 1), mid) ELSE Returned(0),
                 LAMBDA t : Item(450000 + MulFix[t, 450000],
                                 MulFix[180000, Scale - t],
                                 hue_low))
       ELSE IF Real(k - 1) > mid
       THEN Bind(IF Real(n - 1) > mid
                 THEN truediv(Real(k - 1) - mid, Real(n - 1))
                 ELSE Returned(0),
                 LAMBDA t : Item(900000 - MulFix[t, 450000],
                                 MulFix[180000, t],
                                 hue_high))
       ELSE Item(900000, 0, 0))]

palette_diverging_items(n, hue_low, hue_high) ==
  [k \in 1..n |->
     With(diverging_mid(n), LAMBDA mid :
       IF Real(k - 1) < mid
       THEN Bind(IF mid > 0 THEN truediv(Real(k - 1), mid) ELSE Returned(0),
                 LAMBDA t : Item(450000 + MulFix[t, 450000],
                                 MulFix[180000, Scale - t],
                                 hue_low))
       ELSE IF Real(k - 1) > mid
       THEN Bind(IF Real(n - 1) > mid
                 THEN truediv(Real(k - 1) - mid, Real(n - 1) - mid)
                 ELSE Returned(0),
                 LAMBDA t : Item(900000 - MulFix[t, 450000],
                                 MulFix[180000, t],
                                 hue_high))
       ELSE Item(900000, 0, 0))]

palette_diverging(n, hue_low, hue_high) ==
  IF n <= 0 THEN Result(<<>>, <<>>)
  ELSE Colors(palette_diverging_items(n, hue_low, hue_high))

(***************************************************************************)
(* ColorMap and colors_for_runs.                                           *)
(***************************************************************************)

\* list[idx]: Python list indexing, negative indices counting from the end.
list_getitem(list, idx) ==
  IF 0 <= idx /\ idx < Len(list) THEN Returned(list[idx + 1])
  ELSE IF 0 - Len(list) <= idx /\ idx < 0 THEN Returned(list[Len(list) + idx + 1])
  ELSE Raised("IndexError")

\* a % b on Python ints.
py_mod(a, b) ==
  IF b = 0 THEN Raised("ZeroDivisionError")
  ELSE IF b > 0 THEN Returned(a % b)
  ELSE Returned(0 - ((0 - a) % (0 - b)))

Gray == <<"#", "8", "0", "8", "0", "8", "0">>

\* A faulty ColorMap.__init__: varied is ignored.
ColorMap_init_uniform(n, lightness, chroma, hue_start, varied) ==
  sample_colors(n, lightness, chroma, hue_start, DefaultHueRange)

\* ColorMap.__init__: the call whose value becomes self._colors.
ColorMap_init(n, lightness, chroma, hue_start, varied) ==
  IF varied
  THEN sample_colors_varied(n, VariedLMin, VariedLMax, VariedCMin, VariedCMax)
  ELSE sample_colors(n, lightness, chroma, hue_start, DefaultHueRange)

\* A faulty ColorMap.__call__: a cursor that advances with every completed
\* call is added to the index.
ColorMap_call_cursor(_colors, index) ==
  IF _colors = <<>> THEN Returned(Gray)
  ELSE list_getitem(_colors, (index + Cardinality(log)) % Len(_colors))

\* A faulty ColorMap.__call__: return self._colors[index].
ColorMap_call_no_wrap(_colors, index) ==
  IF _colors = <<>> THEN Returned(Gray) ELSE list_getitem(_colors, index)

\* ColorMap.__call__ on an instance whose self._colors is _colors.
ColorMap_call(_colors, index) ==
  IF _colors = <<>> THEN Returned(Gray)
  ELSE With(py_mod(index, Len(_colors)), LAMBDA k :
         IF k.exc # NoExc THEN Raised(k.exc)
         ELSE list_getitem(_colors, k.val))

\* ColorMap.__len__, __iter__ and __getitem__: reads of self._colors.
ColorMap_len(_colors) == Returned(Len(_colors))
ColorMap_iter(_colors) == Returned(_colors)
\* A faulty __getitem__: negative indices are refused.
ColorMap_getitem_no_negative(_colors, index) ==
  IF 0 <= index /\ index < Len(_colors) THEN Returned(_colors[index + 1])
  ELSE Raised("IndexError")

ColorMap_getitem(_colors, index) == list_getitem(_colors, index)

\* d[key] = v on a dict d, modelled as a function on its keys.
dict_set(d, key, v) ==
  [x \in (DOMAIN d) \cup {key} |-> IF x = key THEN v ELSE d[x]]

\* A faulty comprehension: {rid: colors[i] for i, rid in enumerate(run_ids[1:])}.
dict_comprehension_skip_first(run_ids, colors, k) ==
  IF k - 1 > Len(colors) THEN Raised("IndexError")
  ELSE Returned([rid \in {run_ids[i] : i \in 2..k} |->
                  colors[(CHOOSE i \in 2..k :
                            /\ run_ids[i] = rid
                            /\ \A j \in (i + 1)..k : run_ids[j] # rid) - 1]])

\* A faulty comprehension: an identifier keeps the colour of its first
\* occurrence.
dict_comprehension_keep_first(run_ids, colors, k) ==
  IF k > Len(colors) THEN Raised("IndexError")
  ELSE Returned([rid \in {run_ids[i] : i \in 1..k} |->
                  colors[CHOOSE i \in 1..k :
                           /\ run_ids[i] = rid
                           /\ \A j \in 1..(i - 1) : run_ids[j] # rid]])

\* {rid: colors[i] for i, rid in enumerate(run_ids)}: the dict after the
\* first k iterations.
RECURSIVE dict_comprehension(_, _, _)
dict_comprehension(run_ids, colors, k) ==
  IF k = 0 THEN Returned(<<>>)
  ELSE With(dict_comprehension(run_ids, colors, k - 1), LAMBDA d :
         IF d.exc # NoExc THEN d
         ELSE With(list_getitem(colors, k - 1), LAMBDA c :
                IF c.exc # NoExc THEN Raised(c.exc)
                ELSE Returned(dict_set(d.val, run_ids[k], c.val))))

\* A faulty choice of strategy: if varied or n >= 8.
runs_palette_from_8(n, lightness, chroma, varied) ==
  IF varied \/ n >= 8
  THEN sample_colors_varied(n, VariedLMin, VariedLMax, VariedCMin, VariedCMax)
  ELSE sample_colors(n, lightness, chroma, DefaultHueStart, DefaultHueRange)

\* The palette colors_for_runs generates for n identifiers.
runs_palette(n, lightness, chroma, varied) ==
  IF varied \/ n > 8
  THEN sample_colors_varied(n, VariedLMin, VariedLMax, VariedCMin, VariedCMax)
  ELSE sample_colors(n, lightness, chroma, DefaultHueStart, DefaultHueRange)

colors_for_runs(run_ids, lightness, chroma, varied) ==
  With(runs_palette(Len(run_ids), lightness, chroma, varied), LAMBDA colors :
    IF colors.exc # NoExc THEN colors
    ELSE With(dict_comprehension(run_ids, colors.val, Len(run_ids)), LAMBDA d :
           IF d.exc # NoExc THEN Failure(d.exc, colors.handed)
           ELSE Result(d.val, colors.handed)))

(***************************************************************************)
(* hex -> OKLCH, lighten and darken.                                       *)
(***************************************************************************)

\* A faulty strip: only one leading c is removed.
lstrip_once(s, c) ==
  IF s # <<>> /\ Head(s) = c THEN Tail(s) ELSE s

\* s.lstrip(c)
RECURSIVE lstrip(_, _)
lstrip(s, c) ==
  IF s # <<>> /\ Head(s) = c THEN lstrip(Tail(s), c) ELSE s

\* s.rstrip(c)
RECURSIVE rstrip(_, _)
rstrip(s, c) ==
  IF s # <<>> /\ s[Len(s)] = c THEN rstrip(SubSeq(s, 1, Len(s) - 1), c) ELSE s

\* s[a:b] for 0 <= a <= b
slice(s, a, b) == SubSeq(s, a + 1, min(b, Len(s)))

UpperHexDigits == <<"0", "1", "2", "3", "4", "5", "6", "7",
                    "8", "9", "A", "B", "C", "D", "E", "F">>

IsHexDigit(c) ==
  \E v \in 1..16 : HexDigits[v] = c \/ UpperHexDigits[v] = c

HexDigitValue(c) ==
  (CHOOSE v \in 1..16 : HexDigits[v] = c \/ UpperHexDigits[v] = c) - 1

RECURSIVE HexValue(_)
HexValue(s) ==
  IF s = <<>> THEN 0
  ELSE 16 * HexValue(SubSeq(s, 1, Len(s) - 1)) + HexDigitValue(s[Len(s)])

\* int(s, 16) for a string of at most two characters: blanks around the
\* number and one sign before it are accepted, then at least one hex digit.
int16(s) ==
  LET t == rstrip(lstrip(s, " "), " ")
      signed == t # <<>> /\ Head(t) \in {"+", "-"}
      digits == IF signed THEN Tail(t) ELSE t
  IN  IF digits = <<>> \/ \E k \in 1..Len(digits) : ~IsHexDigit(digits[k])
      THEN Raised("ValueError")
      ELSE Returned(IF signed /\ Head(t) = "-" THEN 0 - HexValue(digits)
                    ELSE HexValue(digits))

\* def to_linear(c)
to_linear[c \in Int] ==
  IF c <= 40450 THEN DivFix[c, 12920000]
  ELSE Pow24[DivFix[c + 55000, 1055000]]

\* r_lin, g_lin, b_lin of the channel integers r, g, b
srgb_to_linear[rgb \in Triple] ==
  [k \in 1..3 |-> to_linear[div_int[Real(rgb[k]), 255]]]

\* Linear sRGB to LMS
linear_srgb_to_lms[lin \in Triple] ==
  << MulFix[412221, lin[1]] + MulFix[536333, lin[2]] + MulFix[51446, lin[3]],
     MulFix[211903, lin[1]] + MulFix[680700, lin[2]] + MulFix[107397, lin[3]],
     MulFix[88302, lin[1]] + MulFix[281719, lin[2]] + MulFix[629979, lin[3]] >>

\* l ** (1 / 3) if l >= 0 else -((-l) ** (1 / 3))
signed_cbrt[l \in Int] == IF l >= 0 THEN PowThird[l] ELSE 0 - PowThird[0 - l]

lms_cbrt[lms \in Triple] == [k \in 1..3 |-> signed_cbrt[lms[k]]]

\* LMS to OKLAB: (L, a, b_val)
lms_to_oklab[p \in Triple] ==
  << MulFix[210454, p[1]] + MulFix[793618, p[2]] - MulFix[4072, p[3]],
     MulFix[1977998, p[1]] - MulFix[2428592, p[2]] + MulFix[450594, p[3]],
     MulFix[25904, p[1]] + MulFix[782772, p[2]] - MulFix[808676, p[3]] >>

\* OKLAB to OKLCH
oklab_to_oklch[lab \in Triple] ==
  << lab[1],
     math_sqrt[MulFix[lab[2], lab[2]] + MulFix[lab[3], lab[3]]],
     math_degrees[math_atan2[lab[3], lab[2]]] % FullTurn >>

\* The part of _hex_to_oklch after the parse, on the three channel integers.
rgb_to_oklch[rgb \in Triple] ==
  oklab_to_oklch[lms_to_oklab[lms_cbrt[linear_srgb_to_lms[srgb_to_linear[rgb]]]]]

\* A faulty parse: the channels are read in the order b, g, r.
_hex_to_oklch_bgr(hex_color) ==
  With(lstrip(hex_color, "#"), LAMBDA h :
    With(<<int16(slice(h, 4, 6)), int16(slice(h, 2, 4)), int16(slice(h, 0, 2))>>,
         LAMBDA p :
      IF p[1].exc # NoExc THEN Raised(p[1].exc)
      ELSE IF p[2].exc # NoExc THEN Raised(p[2].exc)
      ELSE IF p[3].exc # NoExc THEN Raised(p[3].exc)
      ELSE Returned(rgb_to_oklch[<<p[1].val, p[2].val, p[3].val>>])))

_hex_to_oklch(hex_color) ==
  With(lstrip(hex_color, "#"), LAMBDA h :
    With(<<int16(slice(h, 0, 2)), int16(slice(h, 2, 4)), int16(slice(h, 4, 6))>>,
         LAMBDA p :
      IF p[1].exc # NoExc THEN Raised(p[1].exc)
      ELSE IF p[2].exc # NoExc THEN Raised(p[2].exc)
      ELSE IF p[3].exc # NoExc THEN Raised(p[3].exc)
      ELSE Returned(rgb_to_oklch[<<p[1].val, p[2].val, p[3].val>>])))

\* return _oklch_to_hex(l, c, h)
adjusted(l, c, h) == Result(_oklch_to_hex(l, c, h), << <<l, c, h>> >>)

lighten(hex_color, amount) ==
  With(_hex_to_oklch(hex_color), LAMBDA lch :
    IF lch.exc # NoExc THEN Failure(lch.exc, <<>>)
    ELSE With(min(Scale, lch.val[1] + amount), LAMBDA l :
           adjusted(l, lch.val[2], lch.val[3])))

darken(hex_color, amount) ==
  With(_hex_to_oklch(hex_color), LAMBDA lch :
    IF lch.exc # NoExc THEN Failure(lch.exc, <<>>)
    ELSE With(max(0, lch.val[1] - amount), LAMBDA l :
           adjusted(l, lch.val[2], lch.val[3])))

(***************************************************************************)
(* profile_writer: Python values.  A value is a record of its type and its *)
(* content: the number of an int, float or bool, the text of a str, the    *)
(* items of a list, set or dict in order.  The items of a dict are its      *)
(* values, each with its key, a string.  A float is kept in millionths,    *)
(* like the colour engine's.                                               *)
(***************************************************************************)

Py(kind, num, str, items) ==
  [kind |-> kind, num |-> num, str |-> str, items |-> items, key |-> ""]

PyNone == Py("None", 0, "", <<>>)
PyBool(b) == Py("bool", IF b THEN 1 ELSE 0, "", <<>>)
PyInt(i) == Py("int", i, "", <<>>)
PyFloat(x) == Py("float", x, "", <<>>)
PyStr(s) == Py("str", 0, s, <<>>)
PyList(items) == Py("list", 0, "", items)
PySet(items) == Py("set", 0, "", items)

\* The value v as the item of a dict under a key, and the value of an item.
Entry(key, v) == [v EXCEPT !.key = key]
Value(item) == [item EXCEPT !.key = ""]

\* The dict of the <<key, value>> pairs given.
PyDict(pairs) ==
  Py("dict", 0, "", [i \in 1..Len(pairs) |-> Entry(pairs[i][1], pairs[i][2])])

\* bool(v)
truthy(v) ==
  CASE v.kind = "None" -> FALSE
    [] v.kind \in {"bool", "int", "float"} -> v.num # 0
    [] v.kind = "str" -> v.str # ""
    [] OTHER -> v.items # <<>>

\* a or b
py_or(a, b) == IF truthy(a) THEN a ELSE b

\* key in d, d[key] and d[key] = v on a dict d.
has_key(d, key) == \E i \in 1..Len(d.items) : d.items[i].key = key
getitem(d, key) ==
  Value(d.items[CHOOSE i \in 1..Len(d.items) : d.items[i].key = key])
setitem(d, key, v) ==
  IF has_key(d, key)
  THEN [d EXCEPT !.items =
          [i \in 1..Len(d.items) |->
             IF d.items[i].key = key THEN Entry(key, v) ELSE d.items[i]]]
  ELSE [d EXCEPT !.items = Append(d.items, Entry(key, v))]

\* The keyword argument called name of a call, or the parameter's default.
kwarg(kw, name, default) == IF name \in DOMAIN kw THEN kw[name] ELSE default

(***************************************************************************)
(* profile_writer: create_profile.                                         *)
(***************************************************************************)

PROFILE_VERSION == 1

VALID_AXIS_SCALES == {PyStr("linear"), PyStr("log10"), PyStr("symlog10")}

\* The parameters of create_profile, all of which can be passed by keyword.
create_profile_params ==
  {"name", "pinned_cards", "run_colors", "group_colors", "superimposed_cards",
   "run_selection", "selected_runs", "metric_descriptions", "tag_filter",
   "run_filter", "smoothing", "group_by", "y_axis_scale", "x_axis_scale",
   "tag_axis_scales"}

DefaultSmoothing == 600000

\* The <<axis_key, scale>> pairs of a tag_axis_scales dict, over all tags.
axis_items(tag_axis_scales) ==
  UNION {{<<axes.items[j].key, Value(axes.items[j])>> :
            j \in 1..Len(axes.items)} :
           axes \in {tag_axis_scales.items[i] :
                       i \in 1..Len(tag_axis_scales.items)}}

\* A faulty validation: the per-tag scales are not looked at.
validate_axis_scales_global_only(y_axis_scale, x_axis_scale, tag_axis_scales) ==
  IF y_axis_scale # PyNone /\ y_axis_scale \notin VALID_AXIS_SCALES
    THEN "ValueError"
  ELSE IF x_axis_scale # PyNone /\ x_axis_scale \notin VALID_AXIS_SCALES
    THEN "ValueError"
  ELSE NoExc

\* The validation of the axis scales: the exception it raises, if any.
validate_axis_scales(y_axis_scale, x_axis_scale, tag_axis_scales) ==
  IF y_axis_scale # PyNone /\ y_axis_scale \notin VALID_AXIS_SCALES
    THEN "ValueError"
  ELSE IF x_axis_scale # PyNone /\ x_axis_scale \notin VALID_AXIS_SCALES
    THEN "ValueError"
  ELSE IF tag_axis_scales # PyNone
          /\ \E item \in axis_items(tag_axis_scales) :
               \/ item[1] \notin {"y", "x"}
               \/ item[2] \notin VALID_AXIS_SCALES
    THEN "ValueError"
  ELSE NoExc

\* [RunColorEntry(runId=run_id, color=color) for run_id, color in d.items()]
run_color_entries(d) ==
  PyList([i \in 1..Len(d.items) |->
            PyDict(<< <<"runId", PyStr(d.items[i].key)>>,
                      <<"color", Value(d.items[i])>> >>)])

\* run_selection or [], or else one RUN_NAME entry per selected run.
run_selection_entries(run_selection, selected_runs) ==
  IF ~truthy(py_or(run_selection, PyList(<<>>))) /\ truthy(selected_runs)
  THEN PyList([i \in 1..Len(selected_runs.items) |->
                 PyDict(<< <<"type", PyStr("RUN_NAME")>>,
                           <<"value", selected_runs.items[i]>>,
                           <<"selected", PyBool(TRUE)>> >>)])
  ELSE py_or(run_selection, PyList(<<>>))

\* data[key] = v if the condition holds.
set_if(cond, key, v, data) == IF cond THEN setitem(data, key, v) ELSE data

\* The body of create_profile after the validation; now is
\* int(time.time() * 1000).
profile_data(kw, now) ==
  With(run_selection_entries(kwarg(kw, "run_selection", PyNone),
                             kwarg(kw, "selected_runs", PyNone)),
       LAMBDA selection :
  set_if(truthy(kwarg(kw, "tag_axis_scales", PyNone)), "tagAxisScales",
         kwarg(kw, "tag_axis_scales", PyNone),
  set_if(kwarg(kw, "x_axis_scale", PyNone) # PyNone, "xAxisScale",
         kwarg(kw, "x_axis_scale", PyNone),
  set_if(kwarg(kw, "y_axis_scale", PyNone) # PyNone, "yAxisScale",
         kwarg(kw, "y_axis_scale", PyNone),
  set_if(kwarg(kw, "group_by", PyNone) # PyNone, "groupBy",
         kwarg(kw, "group_by", PyNone),
  set_if(truthy(kwarg(kw, "metric_descriptions", PyNone)), "metricDescriptions",
         kwarg(kw, "metric_descriptions", PyNone),
  set_if(truthy(selection), "runSelection", selection,
    PyDict(<< <<"version", PyInt(PROFILE_VERSION)>>,
              <<"name", kwarg(kw, "name", PyStr("Default Profile"))>>,
              <<"lastModifiedTimestamp", PyInt(now)>>,
              <<"pinnedCards",
                py_or(kwarg(kw, "pinned_cards", PyNone), PyList(<<>>))>>,
              <<"runColors",
                run_color_entries(
                  py_or(kwarg(kw, "run_colors", PyNone), PyDict(<<>>)))>>,
              <<"groupColors",
                py_or(kwarg(kw, "group_colors", PyNone), PyList(<<>>))>>,
              <<"superimposedCards",
                py_or(kwarg(kw, "superimposed_cards", PyNone), PyList(<<>>))>>,
              <<"tagFilter", kwarg(kw, "tag_filter", PyStr(""))>>,
              <<"runFilter", kwarg(kw, "run_filter", PyStr(""))>>,
              <<"smoothing",
                kwarg(kw, "smoothing", PyFloat(DefaultSmoothing))>> >>))))))))

\* create_profile(**kw) at the time now: a keyword that is no parameter is a
\* TypeError of the call itself.
create_profile(kw, now) ==
  IF ~(DOMAIN kw \subseteq create_profile_params) THEN Raised("TypeError")
  ELSE With(validate_axis_scales(kwarg(kw, "y_axis_scale", PyNone),
                                 kwarg(kw, "x_axis_scale", PyNone),
                                 kwarg(kw, "tag_axis_scales", PyNone)),
            LAMBDA invalid :
         IF invalid # NoExc THEN Raised(invalid)
         ELSE Returned(PyDict(<< <<"version", PyInt(PROFILE_VERSION)>>,
                                 <<"data", profile_data(kw, now)>> >>)))

(***************************************************************************)
(* profile_writer: JSON text.  A text is the sequence of its tokens; the   *)
(* white space json.dump(..., indent=2) puts between them is not kept.     *)
(***************************************************************************)

Tok(kind, num, str) == [kind |-> kind, num |-> num, str |-> str]
Punct(c) == Tok(c, 0, "")

\* What an encoder has produced: the tokens written so far, and the
\* exception that stopped it, if any.
Encoded(toks) == [exc |-> NoExc, toks |-> toks]

RECURSIVE json_encode(_)
RECURSIVE encode_items(_, _, _)
RECURSIVE encode_pairs(_, _, _)

\* The chunks json.dump writes for the items of a list from the i-th on,
\* after the tokens acc.
encode_items(items, i, acc) ==
  IF i > Len(items) THEN Encoded(Append(acc, Punct("]")))
  ELSE With(json_encode(items[i]), LAMBDA e :
         With(IF i = 1 THEN acc ELSE Append(acc, Punct(",")), LAMBDA sofar :
           IF e.exc # NoExc THEN [exc |-> e.exc, toks |-> sofar \o e.toks]
           ELSE encode_items(items, i + 1, sofar \o e.toks)))

\* The same for the pairs of a dict.
encode_pairs(pairs, i, acc) ==
  IF i > Len(pairs) THEN Encoded(Append(acc, Punct("}")))
  ELSE With(json_encode(Value(pairs[i])), LAMBDA e :
         With((IF i = 1 THEN acc ELSE Append(acc, Punct(",")))
                \o <<Tok("str", 0, pairs[i].key), Punct(":")>>, LAMBDA sofar :
           IF e.exc # NoExc THEN [exc |-> e.exc, toks |-> sofar \o e.toks]
           ELSE encode_pairs(pairs, i + 1, sofar \o e.toks)))

\* json.dump(v, f): the text written to f, cut short where a value that is
\* not JSON serialisable raises TypeError.
json_encode(v) ==
  CASE v.kind = "None" -> Encoded(<<Punct("null")>>)
    [] v.kind = "bool" ->
         Encoded(<<Punct(IF v.num = 1 THEN "true" ELSE "false")>>)
    [] v.kind \in {"int", "float", "str"} ->
         Encoded(<<Tok(v.kind, v.num, v.str)>>)
    [] v.kind = "list" -> encode_items(v.items, 1, <<Punct("[")>>)
    [] v.kind = "dict" -> encode_pairs(v.items, 1, <<Punct("{")>>)
    [] OTHER -> [exc |-> "TypeError", toks |-> <<>>]

\* What a parser has read: a value and the place of the next token, or
\* nothing.
Parsed(v, next) == [ok |-> TRUE, val |-> v, next |-> next]
NotParsed == [ok |-> FALSE, val |-> PyNone, next |-> 0]

IsTok(toks, i, c) == i <= Len(toks) /\ toks[i].kind = c

RECURSIVE parse_value(_, _)
RECURSIVE parse_items(_, _, _)
RECURSIVE parse_pairs(_, _, _)

\* The items of an array, after the '[' or a ','; acc holds those read.
parse_items(toks, i, acc) ==
  With(parse_value(toks, i), LAMBDA p :
    IF ~p.ok THEN NotParsed
    ELSE IF IsTok(toks, p.next, "]")
      THEN Parsed(PyList(Append(acc, p.val)), p.next + 1)
    ELSE IF IsTok(toks, p.next, ",")
      THEN parse_items(toks, p.next + 1, Append(acc, p.val))
    ELSE NotParsed)

\* The members of an object, after the '{' or a ','; acc is the dict of
\* those read.
parse_pairs(toks, i, acc) ==
  IF ~(IsTok(toks, i, "str") /\ IsTok(toks, i + 1, ":")) THEN NotParsed
  ELSE With(parse_value(toks, i + 2), LAMBDA p :
    IF ~p.ok THEN NotParsed
    ELSE IF IsTok(toks, p.next, "}")
      THEN Parsed(setitem(acc, toks[i].str, p.val), p.next + 1)
    ELSE IF IsTok(toks, p.next, ",")
      THEN parse_pairs(toks, p.next + 1, setitem(acc, toks[i].str, p.val))
    ELSE NotParsed)

parse_value(toks, i) ==
  IF i > Len(toks) THEN NotParsed
  ELSE CASE toks[i].kind = "null" -> Parsed(PyNone, i + 1)
         [] toks[i].kind = "true" -> Parsed(PyBool(TRUE), i + 1)
         [] toks[i].kind = "false" -> Parsed(PyBool(FALSE), i + 1)
         [] toks[i].kind \in {"int", "float", "str"} ->
              Parsed(Py(toks[i].kind, toks[i].num, toks[i].str, <<>>), i + 1)
         [] toks[i].kind = "[" ->
              IF IsTok(toks, i + 1, "]") THEN Parsed(PyList(<<>>), i + 2)
              ELSE parse_items(toks, i + 1, <<>>)
         [] toks[i].kind = "{" ->
              IF IsTok(toks, i + 1, "}") THEN Parsed(PyDict(<<>>), i + 2)
              ELSE parse_pairs(toks, i + 1, PyDict(<<>>))
         [] OTHER -> NotParsed

\* json.load(f) on a text: the value, or JSONDecodeError.
json_load(toks) ==
  With(parse_value(toks, 1), LAMBDA p :
    IF p.ok /\ p.next = Len(toks) + 1 THEN Returned(p.val)
    ELSE Raised("JSONDecodeError"))

(***************************************************************************)
(* profile_writer: the profile file of a log directory.                    *)
(***************************************************************************)

\* A file holding the text toks; utf8 is whether its bytes decode as UTF-8.
\* foreign is whether another program wrote it.
File(toks, utf8) ==
  [dir |-> TRUE, exists |-> TRUE, utf8 |-> utf8, foreign |-> FALSE,
   text |-> toks]

\* write_profile(logdir, profile): the result of the call and the file it
\* leaves, in the directory os.makedirs made.  open(..., "w") empties the file
\* before json.dump writes; the with statement closes it even when json.dump
\* raises, which keeps what was written until then.
write_profile(logdir, profile) ==
  With(json_encode(profile), LAMBDA e :
    [res |-> IF e.exc # NoExc THEN Raised(e.exc)
             ELSE Returned(<<logdir, ".tensorboard", "default_profile.json">>),
     file |-> File(e.toks, TRUE)])

\* read_profile(logdir) on the file f of the logdir.  Only JSONDecodeError
\* and OSError are caught.
read_profile(f) ==
  IF ~f.exists THEN Returned(PyNone)
  ELSE IF ~f.utf8 THEN Raised("UnicodeDecodeError")
  ELSE With(json_load(f.text), LAMBDA r :
         IF r.exc = "JSONDecodeError" THEN Returned(PyNone) ELSE r)

\* set_default_profile(logdir, **kw): create_profile, then write_profile.
set_default_profile(logdir, kw, now, f) ==
  With(create_profile(kw, now), LAMBDA p :
    IF p.exc # NoExc THEN [res |-> p, file |-> f]
    ELSE write_profile(logdir, p.val))

(***************************************************************************)
(* profile_writer: create_superimposed_card.                               *)
(***************************************************************************)

\* A faulty id: the counter is left out.
card_id_time_only(now, counter) == "superimposed-" \o ToString(now)

\* The id of the card made at the time now with the counter at counter.
card_id(now, counter) ==
  "superimposed-" \o ToString(now) \o "-" \o ToString(counter)

\* create_superimposed_card(title, tags, run_id) once the counter has been
\* incremented to counter.
create_superimposed_card(title, tags, run_id, now, counter) ==
  PyDict(<< <<"id", PyStr(card_id(now, counter))>>,
            <<"title", title>>,
            <<"tags", tags>>,
            <<"runId", run_id>> >>)

(***************************************************************************)
(* _module_alias: the tensorboard alias.  A module name is the sequence of *)
(* its dotted parts; a module is known by the name of the file it was made *)
(* from, and has_spec is whether its __spec__ is set.                      *)
(***************************************************************************)

_PREFIX == "tensorboard"
_TARGET == "tensorbored"

AliasImporter == "_AliasImporter"

Module(name) == [name |-> name, has_spec |-> TRUE]

\* sys.modules[name] = None, and a module made by hand, without __spec__.
NoneModule == [name |-> <<>>, has_spec |-> FALSE]
StubModule == [name |-> <<"stub">>, has_spec |-> FALSE]

\* importlib.util.find_spec(name) for a top-level name, with the finders
\* given as sys.meta_path: "spec", "None", or the ValueError raised for a
\* module of sys.modules whose __spec__ is None.
find_spec(name, finders, modules, packages) ==
  IF name \in DOMAIN modules
  THEN IF modules[name] = NoneModule THEN "None"
       ELSE IF ~modules[name].has_spec THEN "ValueError"
       ELSE "spec"
  ELSE IF \E i \in 1..Len(finders) :
            finders[i] = "PathFinder" /\ name[1] \in packages
       THEN "spec"
       ELSE "None"

IsNoAliasImporter(f) == f # AliasImporter

\* What the probe leaves: the exception it raised or its answer, and
\* sys.meta_path.
Probed(e, v, finders) == [exc |-> e, val |-> v, meta_path |-> finders]

\* A faulty probe: sys.meta_path is put back after find_spec has returned,
\* with no finally clause.
_real_tensorboard_is_installed_no_finally(finders, modules, packages) ==
  With(SelectSeq(finders, IsNoAliasImporter), LAMBDA original_meta_path :
  With(finders, LAMBDA saved :
  With(find_spec(<<_PREFIX>>, original_meta_path, modules, packages),
       LAMBDA found :
         IF found = "ValueError"
         THEN Probed("ValueError", <<>>, original_meta_path)
         ELSE Probed(NoExc, found # "None", saved))))

\* _real_tensorboard_is_installed(): find_spec runs with the alias finders
\* taken out of sys.meta_path, and the finally clause puts the saved list
\* back.
_real_tensorboard_is_installed(finders, modules, packages) ==
  With(SelectSeq(finders, IsNoAliasImporter), LAMBDA original_meta_path :
  With(finders, LAMBDA saved :
  With(find_spec(<<_PREFIX>>, original_meta_path, modules, packages),
       LAMBDA found :
         IF found = "ValueError" THEN Probed("ValueError", <<>>, saved)
         ELSE Probed(NoExc, found # "None", saved))))

\* _PREFIX + key[len(_TARGET):] and _TARGET + fullname[len(_PREFIX):]
alias_key(key) == <<_PREFIX>> \o Tail(key)
real_name(fullname) == <<_TARGET>> \o Tail(fullname)

\* _sync_existing_aliases(): sys.modules.setdefault(alias_key, module) for
\* every key that is _TARGET or starts with _TARGET + ".".
_sync_existing_aliases(modules) ==
  [key \in DOMAIN modules
            \cup {alias_key(k) : k \in {t \in DOMAIN modules : t[1] = _TARGET}} |->
     IF key \in DOMAIN modules THEN modules[key] ELSE modules[real_name(key)]]

\* What install() leaves: the exception it raised, sys.meta_path and
\* sys.modules.
Installed(e, finders, modules) ==
  [exc |-> e, val |-> <<>>, meta_path |-> finders, sys_modules |-> modules]

\* A faulty install(): the finder is added without looking for one already
\* there.
install_unguarded(finders, modules, packages) ==
  With(_real_tensorboard_is_installed(finders, modules, packages), LAMBDA real :
    IF real.exc # NoExc THEN Installed(real.exc, real.meta_path, modules)
    ELSE IF real.val THEN Installed(NoExc, real.meta_path, modules)
    ELSE Installed(NoExc, <<AliasImporter>> \o real.meta_path,
                   _sync_existing_aliases(modules)))

\* install()
install(finders, modules, packages) ==
  With(_real_tensorboard_is_installed(finders, modules, packages), LAMBDA real :
    IF real.exc # NoExc THEN Installed(real.exc, real.meta_path, modules)
    ELSE IF real.val THEN Installed(NoExc, real.meta_path, modules)
    ELSE IF \E i \in 1..Len(real.meta_path) : real.meta_path[i] = AliasImporter
      THEN Installed(NoExc, real.meta_path, modules)
    ELSE Installed(NoExc, <<AliasImporter>> \o real.meta_path,
                   _sync_existing_aliases(modules)))

\* The modules a distribution holds: every name used here but "missing".
on_disk(name) == name[Len(name)] # "missing"

\* tensorbored/__init__.py: the modules its body imports, tensorbored.lazy
\* and tensorbored.version.  It does not import _module_alias and does not
\* call install().  No other module imports at load time here.
package_init(name) ==
  IF name = <<_TARGET>>
  THEN {<<_TARGET, "lazy">>, <<_TARGET, "version">>}
  ELSE {}

\* A faulty loader: a new module object is made for the alias name.
create_module_fresh(mod, fullname) == Module(fullname)

\* _NoopLoader(mod).create_module(spec): the module already loaded.
create_module(mod, fullname) == mod

RECURSIVE import_module(_, _, _, _, _)
RECURSIVE find_and_load(_, _, _, _, _)

\* _AliasImporter.find_spec(fullname): whether a spec is returned, the
\* module its loader holds, and sys.modules afterwards, in which the
\* counterpart under _TARGET has been imported.
_AliasImporter_find_spec(fullname, finders, modules, packages) ==
  IF fullname[1] # _PREFIX
  THEN [spec |-> FALSE, mod |-> NoneModule, sys_modules |-> modules]
  ELSE With(import_module(real_name(fullname), 1, finders, modules, packages),
            LAMBDA after :
         IF real_name(fullname) \notin DOMAIN after
         THEN [spec |-> FALSE, mod |-> NoneModule, sys_modules |-> after]
         ELSE [spec |-> TRUE, mod |-> after[real_name(fullname)],
               sys_modules |-> after])

\* The import system's search from the i-th finder of sys.meta_path on, and
\* the load: sys.modules[name] becomes what the loader's create_module
\* returns, or a new module executed from the file the path finder found.
find_and_load(name, i, finders, modules, packages) ==
  IF i > Len(finders) THEN modules
  ELSE IF finders[i] = AliasImporter
    THEN With(_AliasImporter_find_spec(name, finders, modules, packages),
              LAMBDA found :
           IF found.spec
           THEN [key \in DOMAIN found.sys_modules \cup {name} |->
                   IF key = name THEN create_module(found.mod, name)
                   ELSE found.sys_modules[key]]
           ELSE find_and_load(name, i + 1, finders, found.sys_modules,
                              packages))
  ELSE IF finders[i] = "PathFinder" /\ name[1] \in packages /\ on_disk(name)
    THEN [key \in DOMAIN modules \cup {name} \cup package_init(name) |->
            IF key \in DOMAIN modules THEN modules[key] ELSE Module(key)]
  ELSE find_and_load(name, i + 1, finders, modules, packages)

\* import of one name whose parents are imported: sys.modules afterwards.
import_one(name, finders, modules, packages) ==
  IF name \in DOMAIN modules THEN modules
  ELSE find_and_load(name, 1, finders, modules, packages)

\* importlib.import_module(name): the parents first, from the k-th part on.
\* The import stops at a name that is not found, and at a parent that is
\* None or is no package.
import_module(name, k, finders, modules, packages) ==
  IF k > Len(name) THEN modules
  ELSE With(import_one(SubSeq(name, 1, k), finders, modules, packages),
            LAMBDA after :
         IF SubSeq(name, 1, k) \notin DOMAIN after THEN after
         ELSE IF ~after[SubSeq(name, 1, k)].has_spec THEN after
         ELSE import_module(name, k + 1, finders, after, packages))

(***************************************************************************)
(* The state machine: one call of the public API, or the construction of a *)
(* ColorMap followed by one call of it.                                    *)
(***************************************************************************)

\* Bounds of the inputs.
MaxN == 20
MaxSmallN == 4
MaxCmN == 4
MaxIndex == 9
MaxRuns == 12

\* n for calls with default parameters, and with other parameters.
Counts == (0 - 2)..MaxN
SmallCounts == (0 - 1)..MaxSmallN

\* (lightness, chroma, hue_start, hue_range), in and out of the documented
\* ranges.
UniformParams ==
  { <<DefaultLightness, DefaultChroma, DefaultHueStart, DefaultHueRange>>,
    <<600000, 200000, 0, 360000000>>,
    <<700000, 150000, 180000000, 360000000>>,
    <<700000, 150000, 350000000, 180000000>>,
    <<700000, 150000, 0 - 90000000, 360000000>>,
    <<1500000, 600000, 0, 360000000>>,
    <<0 - 300000, 150000, 0, 360000000>>,
    <<700000, 0 - 100000, 0, 360000000>> }

SampleColorsInputs ==
  {<<n, DefaultLightness, DefaultChroma, DefaultHueStart, DefaultHueRange>> :
     n \in Counts}
  \cup {<<n, p[1], p[2], p[3], p[4]>> : n \in SmallCounts, p \in UniformParams}

\* (l_min, l_max, c_min, c_max)
VariedParams ==
  { <<VariedLMin, VariedLMax, VariedCMin, VariedCMax>>,
    <<300000, 900000, 50000, 300000>>,
    <<1200000, 0 - 400000, 500000, 0>> }

SampleColorsVariedInputs ==
  {<<n, VariedLMin, VariedLMax, VariedCMin, VariedCMax>> : n \in Counts}
  \cup {<<n, p[1], p[2], p[3], p[4]>> : n \in SmallCounts, p \in VariedParams}

SequentialInputs ==
  {<<n, SequentialHue>> : n \in Counts}
  \cup {<<n, h>> : n \in SmallCounts, h \in {0, 120000000, 400000000, 0 - 30000000}}

DivergingInputs ==
  {<<n, DivergingHueLow, DivergingHueHigh>> : n \in Counts}
  \cup {<<n, 120000000, 300000000>> : n \in SmallCounts}

\* (n, lightness, chroma, hue_start, varied)
ColorMapInputs ==
  {<<n, DefaultLightness, DefaultChroma, DefaultHueStart, v>> :
     n \in (0 - 1)..MaxCmN, v \in BOOLEAN}
  \cup {<<3, 600000, 200000, 90000000, FALSE>>}

Indices == (0 - MaxIndex)..MaxIndex

RunNames == <<"run0", "run1", "run2", "run3", "run4", "run5", "run6",
              "run7", "run8", "run9", "run10", "run11", "run12", "run13">>

\* Lists of unique identifiers of every length up to MaxRuns, and lists in
\* which an identifier occurs more than once.
RunLists ==
  {SubSeq(RunNames, 1, k) : k \in 0..min(MaxRuns, Len(RunNames))}
  \cup { <<"a", "a">>, <<"a", "b", "a">>, <<"b", "a", "a", "b">>,
         <<"a", "b", "c", "d", "e", "f", "g", "h", "a">> }

RunParams == { <<DefaultLightness, DefaultChroma>>, <<600000, 200000>> }

\* Well-formed hex colours, as the channel integers they encode.
HexChannels ==
  { <<0, 0, 255>>, <<255, 0, 0>>, <<0, 255, 0>>, <<128, 128, 128>>,
    <<240, 240, 240>>, <<16, 16, 16>>, <<220, 138, 120>>,
    <<0, 0, 0>>, <<255, 255, 255>> }

rgb_hex(c) == <<"#">> \o format_02x[c[1]] \o format_02x[c[2]] \o format_02x[c[3]]

\* Other strings a caller can pass: no '#', upper case, several '#', too
\* short, signed channels.
OtherHex ==
  { <<"f", "f", "8", "0", "0", "0">>,
    <<"#", "F", "F", "8", "0", "0", "0">>,
    <<"#", "#", "0", "0", "f", "f", "0", "0">>,
    <<"#", "1", "2">>,
    <<"#", "+", "1", "-", "1", "+", "f">>,
    <<"#", "g", "g", "0", "0", "0", "0">>,
    <<"#", "f", "f", "8", "0", "0", "0", "a", "a">>,
    <<"#", " ", "1", "2", " ", "+", " ">>,
    <<>> }

HexInputs == {rgb_hex(c) : c \in HexChannels} \cup OtherHex

Amounts ==
  { 0 - 1500000, 0 - 900000, 0 - 500000, 0 - 100000, 0,
    100000, 200000, 500000, 900000, 1500000 }

\* A grid over the RGB cube, adjusted by amount 0 only.
GridLevels == {0, 64, 128, 192, 255}
GridHex == {rgb_hex(<<r, g, b>>) : r \in GridLevels, g \in GridLevels, b \in GridLevels}

\* (hex_color, amount)
AdjustInputs == (HexInputs \X Amounts) \cup (GridHex \X {0})

NoColorMap == [built |-> FALSE, _colors |-> <<>>]

\* The log directory the calls name (a call touches no path outside its
\* logdir), and a directory without a profile file.
LogDirs == {"logs"}
NoFile ==
  [dir |-> FALSE, exists |-> FALSE, utf8 |-> TRUE, foreign |-> FALSE,
   text |-> <<>>]

\* sys.meta_path and sys.modules of an interpreter that imported tensorbored.
DefaultFinders == <<"BuiltinImporter", "FrozenImporter", "PathFinder">>
ImportedModules == [m \in {<<_TARGET>>} |-> Module(m)]

\* Before any call: nothing written, the counter as the module sets it
\* (profile_writer.py line 397), the interpreter's own finders, tensorbored
\* imported and no tensorboard distribution installed.
EngineInit ==
  /\ op = "none"
  /\ args = <<>>
  /\ ret = <<>>
  /\ exc = NoExc
  /\ fwd = <<>>
  /\ cm = NoColorMap
  /\ log = {}

\* The threads of the process that make cards, and a thread that is not
\* inside create_superimposed_card.
Threads == {"t1", "t2"}
IdleThread == [pc |-> "idle", loaded |-> 0, title |-> PyNone]

ProfileInit ==
  /\ threads = [t \in Threads |-> IdleThread]
  /\ files = [d \in LogDirs |-> NoFile]
  /\ _superimposed_card_counter = 0
  /\ written = [d \in LogDirs |-> <<>>]
  /\ cards = <<>>

Init ==
  /\ EngineInit
  /\ ProfileInit
  /\ meta_path = DefaultFinders
  /\ sys_modules = ImportedModules
  /\ site_packages = {_TARGET}
  /\ installs = 0

\* The call of operation o with arguments a has completed with result res.
\* It is logged with the ColorMap it ran on; a colour-engine call writes
\* nothing outside its own result.
Done(o, a, res) ==
  \E r \in {res} :
    /\ op' = o
    /\ args' = a
    /\ ret' = r.val
    /\ exc' = r.exc
    /\ fwd' = r.handed
    /\ log' = log \cup {[op |-> o, args |-> a, self |-> cm._colors,
                          ret |-> r.val, exc |-> r.exc]}
    /\ UNCHANGED <<profile_vars, import_vars>>

SampleColors ==
  /\ op = "none"
  /\ \E a \in SampleColorsInputs :
       Done("sample_colors",
            [n |-> a[1], lightness |-> a[2], chroma |-> a[3],
             hue_start |-> a[4], hue_range |-> a[5]],
            sample_colors(a[1], a[2], a[3], a[4], a[5]))
  /\ UNCHANGED cm

SampleColorsVaried ==
  /\ op = "none"
  /\ \E a \in SampleColorsVariedInputs :
       Done("sample_colors_varied",
            [n |-> a[1], l_min |-> a[2], l_max |-> a[3],
             c_min |-> a[4], c_max |-> a[5]],
            sample_colors_varied(a[1], a[2], a[3], a[4], a[5]))
  /\ UNCHANGED cm

PaletteCategorical ==
  /\ op = "none"
  /\ \E n \in Counts :
       Done("palette_categorical", [n |-> n], palette_categorical(n))
  /\ UNCHANGED cm

PaletteSequential ==
  /\ op = "none"
  /\ \E a \in SequentialInputs :
       Done("palette_sequential", [n |-> a[1], hue |-> a[2]],
            palette_sequential(a[1], a[2]))
  /\ UNCHANGED cm

PaletteDiverging ==
  /\ op = "none"
  /\ \E a \in DivergingInputs :
       Done("palette_diverging",
            [n |-> a[1], hue_low |-> a[2], hue_high |-> a[3]],
            palette_diverging(a[1], a[2], a[3]))
  /\ UNCHANGED cm

ColorMapInit ==
  /\ op = "none"
  /\ \E a \in ColorMapInputs :
       \E r \in {ColorMap_init(a[1], a[2], a[3], a[4], a[5])} :
           /\ Done("ColorMap.__init__",
                   [n |-> a[1], lightness |-> a[2], chroma |-> a[3],
                    hue_start |-> a[4], varied |-> a[5]],
                   [exc |-> r.exc, val |-> <<>>, handed |-> r.handed])
           /\ cm' = IF r.exc = NoExc
                    THEN [built |-> TRUE, _colors |-> r.val]
                    ELSE cm

ColorMapCall ==
  /\ op = "ColorMap.__init__"
  /\ cm.built
  /\ \E index \in Indices :
       \E r \in {ColorMap_call(cm._colors, index)} :
           Done("ColorMap.__call__", [index |-> index],
                [exc |-> r.exc, val |-> r.val, handed |-> <<>>])
  /\ UNCHANGED cm

ColorsForRuns ==
  /\ op = "none"
  /\ \E ids \in RunLists, p \in RunParams, v \in BOOLEAN :
       Done("colors_for_runs",
            [run_ids |-> ids, lightness |-> p[1], chroma |-> p[2],
             varied |-> v],
            colors_for_runs(ids, p[1], p[2], v))
  /\ UNCHANGED cm

Lighten ==
  /\ op = "none"
  /\ \E a \in AdjustInputs :
       Done("lighten", [hex_color |-> a[1], amount |-> a[2]],
            lighten(a[1], a[2]))
  /\ UNCHANGED cm

Darken ==
  /\ op = "none"
  /\ \E a \in AdjustInputs :
       Done("darken", [hex_color |-> a[1], amount |-> a[2]],
            darken(a[1], a[2]))
  /\ UNCHANGED cm

Next ==
  \/ SampleColors
  \/ SampleColorsVaried
  \/ PaletteCategorical
  \/ PaletteSequential
  \/ PaletteDiverging
  \/ ColorMapInit
  \/ ColorMapCall
  \/ ColorsForRuns
  \/ Lighten
  \/ Darken

Spec == Init /\ [][Next]_vars

(***************************************************************************)
(* A session: several calls of the colour engine one after another, on one *)
(* ColorMap instance.                                                      *)
(***************************************************************************)

\* Bound of a session: the number of different calls in it.
MaxCalls == 3

\* The palette sizes asked for in a session.
SessionCounts == {2}

\* The module-level calls of a session, as <<function, arguments>>.
SessionCalls ==
  {<<"sample_colors",
     [n |-> n, lightness |-> DefaultLightness, chroma |-> DefaultChroma,
      hue_start |-> DefaultHueStart, hue_range |-> DefaultHueRange]>> :
     n \in SessionCounts}
  \cup {<<"sample_colors_varied",
          [n |-> n, l_min |-> VariedLMin, l_max |-> VariedLMax,
           c_min |-> VariedCMin, c_max |-> VariedCMax]>> : n \in SessionCounts}
  \cup {<<"palette_categorical", [n |-> n]>> : n \in SessionCounts}
  \cup {<<"palette_sequential", [n |-> n, hue |-> SequentialHue]>> :
          n \in SessionCounts}
  \cup {<<"palette_diverging",
          [n |-> n, hue_low |-> DivergingHueLow, hue_high |-> DivergingHueHigh]>> :
          n \in SessionCounts}
  \cup {<<"colors_for_runs",
          [run_ids |-> SubSeq(RunNames, 1, n), lightness |-> DefaultLightness,
           chroma |-> DefaultChroma, varied |-> v]>> :
          n \in SessionCounts, v \in BOOLEAN}
  \cup {<<"lighten", [hex_color |-> rgb_hex(<<0, 0, 255>>), amount |-> 100000]>>,
         <<"darken", [hex_color |-> rgb_hex(<<255, 0, 0>>), amount |-> 100000]>>,
         <<"lighten", [hex_color |-> <<"#", "1", "2">>, amount |-> 100000]>>}

\* The function named f applied to the arguments a.
engine_call(f, a) ==
  CASE f = "sample_colors" ->
         sample_colors(a.n, a.lightness, a.chroma, a.hue_start, a.hue_range)
    [] f = "sample_colors_varied" ->
         sample_colors_varied(a.n, a.l_min, a.l_max, a.c_min, a.c_max)
    [] f = "palette_categorical" -> palette_categorical(a.n)
    [] f = "palette_sequential" -> palette_sequential(a.n, a.hue)
    [] f = "palette_diverging" -> palette_diverging(a.n, a.hue_low, a.hue_high)
    [] f = "colors_for_runs" ->
         colors_for_runs(a.run_ids, a.lightness, a.chroma, a.varied)
    [] f = "lighten" -> lighten(a.hex_color, a.amount)
    [] f = "darken" -> darken(a.hex_color, a.amount)

SessionColorMaps ==
  {<<n, DefaultLightness, DefaultChroma, DefaultHueStart, v>> :
     n \in {0, 3}, v \in BOOLEAN}

SessionIndices == {0 - 1, 0, 4}

MoreCalls == Cardinality(log) < MaxCalls

\* Any module-level function is called, whatever ran before.
EngineCall ==
  /\ MoreCalls
  /\ \E c \in SessionCalls : Done(c[1], c[2], engine_call(c[1], c[2]))
  /\ UNCHANGED cm

\* The session's ColorMap is constructed.
ColorMapNew ==
  /\ MoreCalls
  /\ ~cm.built
  /\ \E a \in SessionColorMaps :
       \E r \in {ColorMap_init(a[1], a[2], a[3], a[4], a[5])} :
           /\ Done("ColorMap.__init__",
                   [n |-> a[1], lightness |-> a[2], chroma |-> a[3],
                    hue_start |-> a[4], varied |-> a[5]],
                   [exc |-> r.exc, val |-> <<>>, handed |-> r.handed])
           /\ cm' = IF r.exc = NoExc
                    THEN [built |-> TRUE, _colors |-> r.val]
                    ELSE cm

\* cm(index) on the session's ColorMap.
ColorMapIndex ==
  /\ MoreCalls
  /\ cm.built
  /\ \E index \in SessionIndices :
       \E r \in {ColorMap_call(cm._colors, index)} :
           Done("ColorMap.__call__", [index |-> index],
                [exc |-> r.exc, val |-> r.val, handed |-> <<>>])
  /\ UNCHANGED cm

\* len(cm), iter(cm) and cm[index] on the session's ColorMap.
ColorMapRead ==
  /\ MoreCalls
  /\ cm.built
  /\ \/ \E r \in {ColorMap_len(cm._colors)} :
          Done("ColorMap.__len__", <<>>,
               [exc |-> r.exc, val |-> r.val, handed |-> <<>>])
     \/ \E r \in {ColorMap_iter(cm._colors)} :
          Done("ColorMap.__iter__", <<>>,
               [exc |-> r.exc, val |-> r.val, handed |-> <<>>])
     \/ \E index \in SessionIndices :
          \E r \in {ColorMap_getitem(cm._colors, index)} :
              Done("ColorMap.__getitem__", [index |-> index],
                   [exc |-> r.exc, val |-> r.val, handed |-> <<>>])
  /\ UNCHANGED cm

SessionNext ==
  \/ EngineCall
  \/ ColorMapNew
  \/ ColorMapIndex
  \/ ColorMapRead

SessionSpec == Init /\ [][SessionNext]_vars

(***************************************************************************)
(* Calls of profile_writer, one after another, on a log directory.         *)
(***************************************************************************)

\* Bound: the number of cards made in one process.
MaxCards == 4

\* int(time.time() * 1000) of a call: the wall clock, which may stand still
\* or step back between two calls.
Clock == {1000, 1001}

NoArgs == <<>>

\* Axis scales a caller can pass.
Scales == {PyStr("linear"), PyStr("log10"), PyStr("symlog10")}
BadScales == {PyStr("bogus"), PyStr("log"), PyStr(""), PyStr("LINEAR"), PyInt(10)}

\* tag_axis_scales={tag: {axis_key: scale}}
TagScale(axis_key, scale) ==
  PyDict(<< <<"train/loss", PyDict(<< <<axis_key, scale>> >>)>> >>)

\* Keyword arguments of create_profile and set_default_profile.
ScaleKwargs ==
  {[y_axis_scale |-> s] : s \in Scales \cup BadScales \cup {PyNone}}
  \cup {[x_axis_scale |-> s] : s \in Scales \cup BadScales}
  \cup {[y_axis_scale |-> PyStr("log10"), x_axis_scale |-> s] :
          s \in {PyStr("linear"), PyStr("bogus")}}
  \cup {[tag_axis_scales |-> TagScale(k, s)] :
          k \in {"y", "x", "z"}, s \in {PyStr("log10"), PyStr("log")}}
  \cup {[tag_axis_scales |-> PyDict(<< <<"train/loss", PyDict(<<>>)>>,
                                       <<"eval/acc",
                                         PyDict(<< <<"y", PyStr("linear")>>,
                                                   <<"x", PyStr("exp")>> >>)>> >>)],
        [tag_axis_scales |-> PyDict(<<>>)]}

LegacyKwargs ==
  {[default_y_axis_scale |-> PyStr("log10")],
   [default_x_axis_scale |-> PyStr("linear")],
   [default_y_axis_scale |-> PyStr("log10"),
    default_x_axis_scale |-> PyStr("linear")],
   [default_y_axis_scale |-> PyNone]}

OtherKwargs ==
  {NoArgs,
   [name |-> PyStr("Test Profile"), smoothing |-> PyFloat(800000)],
   [selected_runs |-> PyList(<<PyStr("train"), PyStr("eval")>>)],
   [run_selection |-> PyList(<<>>), metric_descriptions |-> PyDict(<<>>)],
   [run_selection |->
      PyList(<<PyDict(<< <<"type", PyStr("RUN_ID")>>,
                         <<"value", PyStr("run1")>>,
                         <<"selected", PyBool(FALSE)>> >>)>>),
    selected_runs |-> PyList(<<PyStr("train")>>)],
   [metric_descriptions |-> PyDict(<< <<"loss", PyStr("Training loss")>> >>),
    run_colors |-> PyDict(<< <<"train", PyStr("#ff0000")>> >>)]}

ProfileKwargs == ScaleKwargs \cup LegacyKwargs \cup OtherKwargs

\* Profiles a caller can hand to write_profile: two made by create_profile,
\* one without 'version', one holding a set.
Profiles ==
  {create_profile(NoArgs, 1000).val,
   create_profile([y_axis_scale |-> PyStr("log10")], 1001).val,
   PyDict(<< <<"data", PyDict(<<>>)>> >>),
   PyDict(<< <<"version", PyInt(1)>>,
             <<"data", PyDict(<< <<"name", PyStr("bad")>>,
                                 <<"tags", PySet(<<PyStr("a")>>)>> >>)>> >>)}

\* Keyword arguments of the set_default_profile calls.
DefaultProfileKwargs ==
  {NoArgs,
   [y_axis_scale |-> PyStr("log10"), x_axis_scale |-> PyStr("linear")],
   [y_axis_scale |-> PyStr("bogus")],
   [tag_axis_scales |-> TagScale("y", PyStr("log"))],
   [tag_axis_scales |-> TagScale("z", PyStr("linear"))],
   [default_y_axis_scale |-> PyStr("log10")]}

\* What another program can leave in the profile file: bytes that are not
\* UTF-8, and a JSON text cut short.
ForeignFiles ==
  {[dir |-> TRUE, exists |-> TRUE, utf8 |-> FALSE, foreign |-> TRUE,
    text |-> <<>>],
   [dir |-> TRUE, exists |-> TRUE, utf8 |-> TRUE, foreign |-> TRUE,
    text |-> <<Punct("{"), Tok("str", 0, "version")>>]}

\* The call of operation o with arguments a has completed with result res.
Called(o, a, res) ==
  /\ op' = o
  /\ args' = a
  /\ ret' = res.val
  /\ exc' = res.exc
  /\ fwd' = <<>>
  /\ UNCHANGED <<cm, log>>

CreateProfile ==
  /\ \E kw \in ProfileKwargs, now \in Clock :
       Called("create_profile", [kw |-> kw, now |-> now],
              create_profile(kw, now))
  /\ UNCHANGED <<profile_vars, import_vars>>

WriteProfile ==
  /\ \E d \in LogDirs, p \in Profiles :
       \E w \in {write_profile(d, p)} :
           /\ Called("write_profile", [logdir |-> d, profile |-> p], w.res)
           /\ files' = [files EXCEPT ![d] = w.file]
           /\ written' = IF w.res.exc = NoExc
                         THEN [written EXCEPT ![d] = <<p>>]
                         ELSE written
  /\ UNCHANGED <<_superimposed_card_counter, cards, threads, import_vars>>

ReadProfile ==
  /\ \E d \in LogDirs :
       Called("read_profile", [logdir |-> d], read_profile(files[d]))
  /\ UNCHANGED <<profile_vars, import_vars>>

SetDefaultProfile ==
  /\ \E d \in LogDirs, kw \in DefaultProfileKwargs, now \in Clock :
       \E p \in {create_profile(kw, now)} :
         \E w \in {set_default_profile(d, kw, now, files[d])} :
           /\ Called("set_default_profile",
                     [logdir |-> d, kw |-> kw, now |-> now], w.res)
           /\ files' = [files EXCEPT ![d] = w.file]
           /\ written' = IF w.res.exc = NoExc
                         THEN [written EXCEPT ![d] = <<p.val>>]
                         ELSE written
  /\ UNCHANGED <<_superimposed_card_counter, cards, threads, import_vars>>

\* Another program replaces the profile file of a log directory.
ForeignWrite ==
  /\ \E d \in LogDirs, f \in ForeignFiles :
       /\ Called("foreign write", [logdir |-> d], Returned(<<>>))
       /\ files' = [files EXCEPT ![d] = f]
  /\ UNCHANGED <<_superimposed_card_counter, written, cards, threads,
                 import_vars>>

ProfileNext ==
  \/ CreateProfile
  \/ WriteProfile
  \/ ReadProfile
  \/ SetDefaultProfile
  \/ ForeignWrite

ProfileSpec == Init /\ [][ProfileNext]_vars

(***************************************************************************)
(* Calls of create_superimposed_card in one process.                       *)
(***************************************************************************)

CardTitles == {PyStr("Loss"), PyStr("Accuracy")}
CardTags == {PyList(<<PyStr("train/loss"), PyStr("eval/loss")>>)}
CardRuns == {PyNone, PyStr("run1")}

CreateSuperimposedCard ==
  /\ _superimposed_card_counter < MaxCards
  /\ \E title \in CardTitles, tags \in CardTags, run_id \in CardRuns,
        now \in Clock :
       \E card \in {create_superimposed_card(
                      title, tags, run_id, now,
                      _superimposed_card_counter + 1)} :
         /\ Called("create_superimposed_card",
                   [title |-> title, tags |-> tags, run_id |-> run_id,
                    now |-> now],
                   Returned(card))
         /\ _superimposed_card_counter' = _superimposed_card_counter + 1
         /\ cards' = Append(cards, [id |-> getitem(card, "id").str,
                                    now |-> now])
  /\ UNCHANGED <<files, written, threads, import_vars>>

CardNext == CreateSuperimposedCard

CardSpec == Init /\ [][CardNext]_vars

(***************************************************************************)
(* Calls of create_superimposed_card from two threads.  A thread can be    *)
(* switched out between any two bytecodes of                               *)
(*     _superimposed_card_counter += 1                                     *)
(* (load the global, add, store the global) on the builds that allow it,   *)
(* and on every build in the calls of time.time() and int() that lie       *)
(* between the store and the later load of the global for the id.          *)
(***************************************************************************)

InCall == {t \in Threads : threads[t].pc # "idle"}

\* A thread enters create_superimposed_card(title, tags).
CardBegin ==
  /\ Len(cards) + Cardinality(InCall) < MaxCards
  /\ \E t \in Threads, title \in CardTitles :
       /\ threads[t].pc = "idle"
       /\ threads' = [threads EXCEPT ![t] =
                        [pc |-> "load", loaded |-> 0, title |-> title]]
  /\ UNCHANGED <<engine_vars, files, _superimposed_card_counter, written,
                 cards, import_vars>>

\* _superimposed_card_counter += 1 on a build that does not switch threads
\* inside the statement.
CardIncrement ==
  /\ \E t \in Threads :
       /\ threads[t].pc = "load"
       /\ _superimposed_card_counter' = _superimposed_card_counter + 1
       /\ threads' = [threads EXCEPT ![t].pc = "format"]
  /\ UNCHANGED <<engine_vars, files, written, cards, import_vars>>

\* LOAD_GLOBAL _superimposed_card_counter
CardLoad ==
  /\ \E t \in Threads :
       /\ threads[t].pc = "load"
       /\ threads' = [threads EXCEPT ![t].pc = "store",
                                     ![t].loaded = _superimposed_card_counter]
  /\ UNCHANGED <<engine_vars, files, _superimposed_card_counter, written,
                 cards, import_vars>>

\* BINARY_OP +=, STORE_GLOBAL _superimposed_card_counter
CardStore ==
  /\ \E t \in Threads :
       /\ threads[t].pc = "store"
       /\ _superimposed_card_counter' = threads[t].loaded + 1
       /\ threads' = [threads EXCEPT ![t].pc = "format"]
  /\ UNCHANGED <<engine_vars, files, written, cards, import_vars>>

\* The f-string: int(time.time() * 1000), then the global is loaded again;
\* the card is returned.
CardFormat ==
  /\ \E t \in Threads, tags \in CardTags, now \in Clock :
       /\ threads[t].pc = "format"
       /\ \E card \in {create_superimposed_card(
                          threads[t].title, tags, PyNone, now,
                          _superimposed_card_counter)} :
            /\ Called("create_superimposed_card",
                      [title |-> threads[t].title, tags |-> tags,
                       run_id |-> PyNone, now |-> now],
                      Returned(card))
            /\ cards' = Append(cards, [id |-> getitem(card, "id").str,
                                       now |-> now])
       /\ threads' = [threads EXCEPT ![t] = IdleThread]
  /\ UNCHANGED <<files, _superimposed_card_counter, written, import_vars>>

ThreadNext ==
  \/ CardBegin
  \/ CardIncrement
  \/ CardLoad
  \/ CardStore
  \/ CardFormat

ThreadSpec == Init /\ [][ThreadNext]_vars

(***************************************************************************)
(* Calls of install() in an interpreter in which modules are imported and  *)
(* removed and other finders are added.                                    *)
(***************************************************************************)

\* Bound: the number of install() calls.
MaxInstalls == 3

\* The names imported: the two packages, a subpackage of each, and a name
\* that neither distribution holds.
ImportNames ==
  {<<_TARGET>>, <<_TARGET, "plugins">>, <<_PREFIX>>, <<_PREFIX, "plugins">>,
   <<_PREFIX, "missing">>}

\* sys.modules at the start: tensorbored imported; a tensorboard entry that
\* is None, or a module made by hand, may be there already.
StartModules ==
  {ImportedModules,
   [m \in {<<_TARGET>>, <<_PREFIX>>} |->
      IF m = <<_TARGET>> THEN Module(m) ELSE NoneModule],
   [m \in {<<_TARGET>>, <<_PREFIX>>} |->
      IF m = <<_TARGET>> THEN Module(m) ELSE StubModule]}

\* The tensorboard distribution is installed, or it is not.
AliasInit ==
  /\ EngineInit
  /\ ProfileInit
  /\ meta_path = DefaultFinders
  /\ sys_modules \in StartModules
  /\ site_packages \in {{_TARGET}, {_TARGET, _PREFIX}}
  /\ installs = 0

Install ==
  /\ installs < MaxInstalls
  /\ <<_TARGET>> \in DOMAIN sys_modules
  /\ \E r \in {install(meta_path, sys_modules, site_packages)} :
       /\ Called("install", <<>>, r)
       /\ meta_path' = r.meta_path
       /\ sys_modules' = r.sys_modules
  /\ installs' = installs + 1
  /\ UNCHANGED <<profile_vars, site_packages>>

\* import <name>, by any module of the process.
ImportModule ==
  /\ \E name \in ImportNames :
       /\ sys_modules' = import_module(name, 1, meta_path, sys_modules,
                                       site_packages)
       /\ Called("import", name,
                 IF name \in DOMAIN sys_modules'
                      /\ sys_modules'[name] # NoneModule
                 THEN Returned(<<>>)
                 ELSE Raised("ModuleNotFoundError"))
  /\ UNCHANGED <<profile_vars, meta_path, site_packages, installs>>

\* del sys.modules[<name>] of an entry under the alias.
RemoveModule ==
  /\ \E name \in {n \in DOMAIN sys_modules : n[1] = _PREFIX} :
       /\ sys_modules' = [key \in DOMAIN sys_modules \ {name} |->
                            sys_modules[key]]
       /\ Called("del", name, Returned(<<>>))
  /\ UNCHANGED <<profile_vars, meta_path, site_packages, installs>>

\* Another library puts its own finder in front.
AddFinder ==
  /\ \A i \in 1..Len(meta_path) : meta_path[i] # "OtherFinder"
  /\ meta_path' = <<"OtherFinder">> \o meta_path
  /\ Called("sys.meta_path.insert", <<>>, Returned(<<>>))
  /\ UNCHANGED <<profile_vars, sys_modules, site_packages, installs>>

AliasNext ==
  \/ Install
  \/ ImportModule
  \/ RemoveModule
  \/ AddFinder

AliasSpec == AliasInit /\ [][AliasNext]_vars

\* A module of the process puts a module made by hand, without __spec__,
\* at sys.modules["tensorboard"].
PlantModule ==
  /\ IF <<_PREFIX>> \in DOMAIN sys_modules
     THEN sys_modules[<<_PREFIX>>] # StubModule
     ELSE TRUE
  /\ sys_modules' = [key \in DOMAIN sys_modules \cup {<<_PREFIX>>} |->
                       IF key = <<_PREFIX>> THEN StubModule
                       ELSE sys_modules[key]]
  /\ Called("sys.modules.__setitem__", <<_PREFIX>>, Returned(<<>>))
  /\ UNCHANGED <<profile_vars, meta_path, site_packages, installs>>

ProbeNext ==
  \/ Install
  \/ ImportModule
  \/ RemoveModule
  \/ AddFinder
  \/ PlantModule

ProbeSpec == AliasInit /\ [][ProbeNext]_vars

(***************************************************************************)
(* The same interpreter from its start, before tensorbored is imported.    *)
(***************************************************************************)

NoModules == [m \in {} |-> Module(m)]

PackageInit ==
  /\ EngineInit
  /\ ProfileInit
  /\ meta_path = DefaultFinders
  /\ sys_modules = NoModules
  /\ site_packages \in {{_TARGET}, {_TARGET, _PREFIX}}
  /\ installs = 0

\* sys.modules[name] after the statement "import <name>", NoneModule if the
\* import fails.
resolve(name, finders, modules, packages) ==
  With(import_module(name, 1, finders, modules, packages), LAMBDA after :
    IF name \in DOMAIN after THEN after[name] ELSE NoneModule)

\* import tensorbored.torch: the package is initialised, then the body of
\* torch.py imports torch.utils.tensorboard, which imports tensorboard.  A
\* module whose body raises is not left in sys.modules.
ImportTorch ==
  /\ \E pkg \in {import_module(<<_TARGET>>, 1, meta_path, sys_modules,
                               site_packages)} :
     \E tb \in {import_module(<<_PREFIX>>, 1, meta_path, pkg,
                              site_packages)} :
       IF <<_PREFIX>> \in DOMAIN tb /\ tb[<<_PREFIX>>] # NoneModule
       THEN /\ sys_modules' =
                 [key \in DOMAIN tb \cup {<<_TARGET, "torch">>} |->
                    IF key \in DOMAIN tb THEN tb[key] ELSE Module(key)]
            /\ Called("import", <<_TARGET, "torch">>, Returned(<<>>))
       ELSE /\ sys_modules' = pkg
            /\ Called("import", <<_TARGET, "torch">>,
                      Raised("ModuleNotFoundError"))
  /\ UNCHANGED <<profile_vars, meta_path, site_packages, installs>>

PackageNext ==
  \/ Install
  \/ ImportModule
  \/ ImportTorch
  \/ RemoveModule
  \/ AddFinder

PackageSpec == PackageInit /\ [][PackageNext]_vars

(***************************************************************************)
(* Properties.                                                             *)
(***************************************************************************)

GeneratorOps ==
  {"sample_colors", "sample_colors_varied", "palette_categorical",
   "palette_sequential", "palette_diverging"}

\* s is '#' followed by exactly six lowercase hex digits.
IsHexColor(s) ==
  /\ Len(s) = 7
  /\ s[1] = "#"
  /\ \A k \in 2..7 : \E v \in 1..16 : HexDigits[v] = s[k]

\* s is '#' followed by exactly six hex digits of either case.
WellFormedHex(s) ==
  /\ Len(s) = 7
  /\ s[1] = "#"
  /\ \A k \in 2..7 : IsHexDigit(s[k])

PairwiseDistinct(list) ==
  \A i, j \in 1..Len(list) : i # j => list[i] # list[j]

\* The colour strings the completed call returned.
ReturnedColors ==
  CASE op \in GeneratorOps -> {ret[i] : i \in 1..Len(ret)}
    [] op = "colors_for_runs" -> {ret[k] : k \in DOMAIN ret}
    [] op \in {"ColorMap.__call__", "lighten", "darken"} /\ exc = NoExc -> {ret}
    [] OTHER -> {}

\* The call ran with the default parameters of its operation.
DefaultCall ==
  CASE op = "sample_colors" ->
         /\ args.lightness = DefaultLightness /\ args.chroma = DefaultChroma
         /\ args.hue_start = DefaultHueStart /\ args.hue_range = DefaultHueRange
    [] op = "sample_colors_varied" ->
         /\ args.l_min = VariedLMin /\ args.l_max = VariedLMax
         /\ args.c_min = VariedCMin /\ args.c_max = VariedCMax
    [] op = "palette_sequential" -> args.hue = SequentialHue
    [] op = "palette_diverging" ->
         args.hue_low = DivergingHueLow /\ args.hue_high = DivergingHueHigh
    [] OTHER -> FALSE

\* C1: every palette generator returns, without raising, a list of exactly n
\* entries when n >= 1 and the empty list when n <= 0.
C1_GeneratorLength ==
  op \in GeneratorOps =>
    /\ exc = NoExc
    /\ Len(ret) = IF args.n >= 1 THEN args.n ELSE 0

\* C1 witness: palette_diverging(7) has returned 7 entries.
C1_Witness ==
  op = "palette_diverging" /\ args.n = 7 /\ exc = NoExc /\ Len(ret) = 7

\* C2: every colour string a public operation returns is '#' followed by six
\* lowercase hex digits, also for out-of-range lightness and chroma: every
\* channel integer encoded from a triple handed to _oklch_to_hex is in 0..255.
C2_HexFormat ==
  /\ \A s \in ReturnedColors : IsHexColor(s)
  /\ \A i \in 1..Len(fwd) : \A k \in 1..3 :
       channel_bytes[_oklab_to_linear_srgb[_oklch_to_oklab[fwd[i]]]][k] \in 0..255

\* C2 witness: sample_colors with lightness 1.5 and chroma 0.6 has returned
\* colours.
C2_Witness ==
  /\ op = "sample_colors"
  /\ args.lightness > Scale
  /\ args.chroma > Scale \div 2
  /\ args.n >= 2
  /\ exc = NoExc
  /\ Len(ret) = args.n

\* The value of the dict colors_for_runs builds from the palette pal: every
\* identifier is paired with the colour at its last position.
PairedWith(pal) ==
  /\ Len(pal) = Len(args.run_ids)
  /\ \A i \in 1..Len(args.run_ids) :
       (\A j \in (i + 1)..Len(args.run_ids) : args.run_ids[j] # args.run_ids[i])
         => ret[args.run_ids[i]] = pal[i]

\* C3: colors_for_runs pairs the identifiers with sample_colors_varied(n) when
\* varied is true or n = len(run_ids) > 8, and with
\* sample_colors(n, lightness, chroma) otherwise.
C3_StrategyChoice ==
  op = "colors_for_runs" =>
    /\ exc = NoExc
    /\ \E n \in {Len(args.run_ids)} :
         IF args.varied \/ n > 8
         THEN PairedWith(sample_colors_varied(n, VariedLMin, VariedLMax,
                                              VariedCMin, VariedCMax).val)
         ELSE PairedWith(sample_colors(n, args.lightness, args.chroma,
                                       DefaultHueStart, DefaultHueRange).val)

\* C3 witness: with varied false, a call with 9 unique identifiers has
\* returned 9 colours.
C3_Witness ==
  /\ op = "colors_for_runs"
  /\ ~args.varied
  /\ exc = NoExc
  /\ Len(args.run_ids) = 9
  /\ Cardinality(DOMAIN ret) = 9

\* C4: the key set of colors_for_runs(run_ids) is the set of elements of
\* run_ids, whether the list is empty, unique or has duplicates.
C4_KeySet ==
  op = "colors_for_runs" =>
    /\ exc = NoExc
    /\ DOMAIN ret = {args.run_ids[i] : i \in 1..Len(args.run_ids)}

\* C4 witness: colors_for_runs(["a", "b", "a"]) has returned a dict with the
\* keys a and b.
C4_Witness ==
  /\ op = "colors_for_runs"
  /\ args.run_ids = <<"a", "b", "a">>
  /\ exc = NoExc
  /\ DOMAIN ret = {"a", "b"}

\* C5: a ColorMap built with n >= 1 holds n colours and one built with
\* n <= 0 holds none; ColorMap.__call__ never raises, returns
\* palette[index mod n] on n >= 1 colours, the same for index + n, and
\* '#808080' on an empty palette.
C5_CallTotal ==
  /\ op = "ColorMap.__init__" =>
       /\ exc = NoExc
       /\ cm.built
       /\ Len(cm._colors) = IF args.n >= 1 THEN args.n ELSE 0
  /\ op = "ColorMap.__call__" =>
       /\ exc = NoExc
       /\ \E n \in {Len(cm._colors)} :
            IF n >= 1
            THEN /\ ret = cm._colors[(args.index % n) + 1]
                 /\ ColorMap_call(cm._colors, args.index + n) = Returned(ret)
            ELSE ret = Gray

\* C5 witness: index -4 on a ColorMap of 3 colours has returned the colour at
\* position 2.
C5_Witness ==
  /\ op = "ColorMap.__call__"
  /\ exc = NoExc
  /\ Len(cm._colors) = 3
  /\ args.index = 0 - 4
  /\ ret = cm._colors[3]

\* C6: the i-th colour of sample_colors is the forward conversion of
\* (lightness, chroma, (hue_start + i*hue_range/n) mod 360); n = 3 with the
\* defaults uses the hues 0, 120 and 240.
C6_UniformHues ==
  op = "sample_colors" /\ args.n >= 1 =>
    /\ exc = NoExc
    /\ Len(fwd) = args.n
    /\ Len(ret) = args.n
    /\ \A k \in 1..args.n :
         /\ fwd[k] = << args.lightness, args.chroma,
                        (args.hue_start
                           + MulDivInt[k - 1, args.hue_range, args.n]) % FullTurn >>
         /\ ret[k] = _oklch_to_hex(fwd[k][1], fwd[k][2], fwd[k][3])
    /\ (DefaultCall /\ args.n = 3) =>
         <<fwd[1][3], fwd[2][3], fwd[3][3]>> = <<0, Real(120), Real(240)>>

\* C6 witness: sample_colors(3) with the defaults has returned, its third
\* hue 240.
C6_Witness ==
  /\ op = "sample_colors"
  /\ exc = NoExc
  /\ DefaultCall
  /\ args.n = 3
  /\ fwd[3][3] = Real(240)

\* C7: with default parameters and 1 <= n <= 20, the uniform, varied,
\* sequential and diverging palettes have pairwise distinct entries.
C7_Distinct ==
  (/\ op \in {"sample_colors", "sample_colors_varied",
              "palette_sequential", "palette_diverging"}
   /\ DefaultCall
   /\ 1 <= args.n
   /\ args.n <= 20)
    => /\ Len(ret) = args.n
       /\ PairwiseDistinct(ret)

\* C7 witness: the default sequential palette of 20 entries, all different,
\* has been returned.
C7_Witness ==
  /\ op = "palette_sequential"
  /\ DefaultCall
  /\ args.n = 20
  /\ Cardinality({ret[i] : i \in 1..Len(ret)}) = 20

\* C8: with default parameters and n > 2, sample_colors_varied(n) differs from
\* sample_colors(n), and ColorMap(n, varied=True) holds a palette different
\* from that of ColorMap(n, varied=False).
C8_VariedDiffers ==
  /\ (op = "sample_colors_varied" /\ DefaultCall /\ args.n > 2) =>
       /\ exc = NoExc
       /\ ret # sample_colors(args.n, DefaultLightness, DefaultChroma,
                              DefaultHueStart, DefaultHueRange).val
  /\ (/\ op = "ColorMap.__init__"
      /\ args.n > 2
      /\ args.lightness = DefaultLightness
      /\ args.chroma = DefaultChroma
      /\ args.hue_start = DefaultHueStart) =>
       /\ exc = NoExc
       /\ cm._colors # ColorMap_init(args.n, args.lightness, args.chroma,
                                     args.hue_start, ~args.varied).val

\* C8 witness: ColorMap(3, varied=True) holds the 3 colours of
\* sample_colors_varied(3).
C8_Witness ==
  /\ op = "ColorMap.__init__"
  /\ args.n = 3
  /\ args.varied
  /\ Len(cm._colors) = 3
  /\ cm._colors = sample_colors_varied(3, VariedLMin, VariedLMax,
                                       VariedCMin, VariedCMax).val

\* C9: for a well-formed hex colour and any amount, lighten and darken hand to
\* the forward conversion the reverse-converted lightness plus (lighten) or
\* minus (darken) amount clamped into [0,1], and the reverse-converted chroma
\* and hue unchanged.
C9_LightnessClamped ==
  (op \in {"lighten", "darken"} /\ WellFormedHex(args.hex_color)) =>
    /\ exc = NoExc
    /\ \E lch \in {_hex_to_oklch(args.hex_color).val} :
         fwd = << << _clamp(IF op = "lighten" THEN lch[1] + args.amount
                            ELSE lch[1] - args.amount, 0, Scale),
                     lch[2], lch[3] >> >>

\* C10: for a well-formed hex colour and a >= 0, lighten(hex, -a) returns
\* what darken(hex, a) returns.
C10_NegativeLighten ==
  (op = "lighten" /\ WellFormedHex(args.hex_color) /\ args.amount <= 0) =>
    /\ exc = NoExc
    /\ ret = darken(args.hex_color, 0 - args.amount).val

\* The three channel integers a well-formed hex colour encodes.
Channels(s) ==
  <<HexValue(SubSeq(s, 2, 3)), HexValue(SubSeq(s, 4, 5)), HexValue(SubSeq(s, 6, 7))>>

\* Two hex colours differ by at most 1 unit in each RGB channel.
WithinOneUnit(s, t) ==
  /\ IsHexColor(t)
  /\ \E c \in {Channels(s)}, d \in {Channels(t)} :
       \A k \in 1..3 : Abs(c[k] - d[k]) <= 1

\* C11: for a well-formed hex colour, lighten(hex, 0) and darken(hex, 0)
\* return the forward conversion of the reverse conversion of hex, which
\* differs from hex by at most 1 unit in each RGB channel.
C11_RoundTrip ==
  (/\ op \in {"lighten", "darken"}
   /\ WellFormedHex(args.hex_color)
   /\ args.amount = 0) =>
    /\ exc = NoExc
    /\ \E lch \in {_hex_to_oklch(args.hex_color)} :
         /\ lch.exc = NoExc
         /\ ret = _oklch_to_hex(lch.val[1], lch.val[2], lch.val[3])
    /\ WithinOneUnit(args.hex_color, ret)

\* C11 witness: lighten('#40c0ff', 0) has returned a colour within one unit
\* of its argument.
C11_Witness ==
  /\ op = "lighten"
  /\ args.amount = 0
  /\ args.hex_color = <<"#", "4", "0", "c", "0", "f", "f">>
  /\ WithinOneUnit(args.hex_color, ret)

\* s without its leading '#' characters.
AfterHashes(s) ==
  IF \A i \in 1..Len(s) : s[i] = "#" THEN <<>>
  ELSE SubSeq(s, CHOOSE i \in 1..Len(s) :
                   s[i] # "#" /\ \A j \in 1..(i - 1) : s[j] = "#",
              Len(s))

\* int(t, 16) accepts the text t of at most two characters: one or two hex
\* digits, or one hex digit after a blank or a sign, or before a blank.
IntAccepts(t) ==
  \/ Len(t) = 1 /\ IsHexDigit(t[1])
  \/ /\ Len(t) = 2
     /\ \/ IsHexDigit(t[1]) /\ IsHexDigit(t[2])
        \/ t[1] \in {" ", "+", "-"} /\ IsHexDigit(t[2])
        \/ IsHexDigit(t[1]) /\ t[2] = " "

\* Each of the three channel texts of s is accepted by int(., 16).
ChannelsParse(s) ==
  \E h \in {AfterHashes(s)} :
    \A k \in 1..3 : IntAccepts(SubSeq(h, 2 * k - 1, min(2 * k, Len(h))))

\* C12 as stated: on a string that is not '#' plus 6 hex digits, lighten and
\* darken (and the reverse conversion they call) raise no exception and
\* return some value.
C12_FailsSilently ==
  (op \in {"lighten", "darken"} /\ ~WellFormedHex(args.hex_color)) =>
    /\ exc = NoExc
    /\ IsHexColor(ret)

\* C12 amended: the input is not validated against the hex pattern.  When its
\* three two-character channel texts, taken after all leading '#', are each
\* accepted by int(., 16), lighten and darken return a colour without
\* raising; otherwise they raise ValueError, return nothing and convert
\* nothing.
C12_ValueErrorOrSilent ==
  op \in {"lighten", "darken"} =>
    IF ChannelsParse(args.hex_color)
    THEN exc = NoExc /\ IsHexColor(ret) /\ Len(fwd) = 1
    ELSE exc = "ValueError" /\ ret = <<>> /\ fwd = <<>>

\* C12 witness: darken('#12', 0.5) has raised ValueError.
C12_Witness ==
  /\ op = "darken"
  /\ args.hex_color = <<"#", "1", "2">>
  /\ args.amount = 500000
  /\ exc = "ValueError"

\* C13: every colour-engine operation is a function of its arguments (and,
\* for a ColorMap method, of the instance it runs on) alone: a call whose
\* function, arguments and instance equal those of a call completed earlier
\* in the session ends the same way; no call writes state outside its own
\* result; and no call changes the palette of a ColorMap already built.
SameAsBefore ==
  \A e \in log :
    (e.op = op' /\ e.args = args' /\ e.self = cm._colors) =>
      (e.ret = ret' /\ e.exc = exc')

C13_Step ==
  /\ SameAsBefore
  /\ UNCHANGED <<profile_vars, import_vars>>
  /\ cm.built => cm' = cm

ProfileData ==
  IF op = "create_profile" THEN getitem(ret, "data")
  ELSE getitem(written[args.logdir][1], "data")

\* data[key] exists and equals v.
HasValue(data, key, v) == has_key(data, key) /\ getitem(data, key) = v

\* C14: create_profile() with no arguments returns a profile whose data holds
\* runSelection [] and metricDescriptions {}, next to version, name
\* 'Default Profile', pinnedCards [], runColors [], tagFilter '' and
\* smoothing 0.6.
C14_DefaultsComplete ==
  (op = "create_profile" /\ DOMAIN args.kw = {}) =>
    /\ exc = NoExc
    /\ HasValue(ret, "version", PyInt(PROFILE_VERSION))
    /\ HasValue(ProfileData, "name", PyStr("Default Profile"))
    /\ HasValue(ProfileData, "pinnedCards", PyList(<<>>))
    /\ HasValue(ProfileData, "runColors", PyList(<<>>))
    /\ HasValue(ProfileData, "tagFilter", PyStr(""))
    /\ HasValue(ProfileData, "smoothing", PyFloat(600000))
    /\ HasValue(ProfileData, "runSelection", PyList(<<>>))
    /\ HasValue(ProfileData, "metricDescriptions", PyDict(<<>>))

\* C15: write_profile of a profile without a top-level 'version' key raises
\* ValueError and leaves the log directory as it was.
C15_Step ==
  (op' = "write_profile" /\ ~has_key(args'.profile, "version")) =>
    (exc' = "ValueError" /\ files' = files)

C15_VersionRequired == [][C15_Step]_vars

\* C16: read_profile never raises; it returns None while no profile has been
\* written to the log directory and when the file there is no valid JSON,
\* and otherwise the profile of the most recent successful write_profile or
\* set_default_profile, which made <logdir>/.tensorboard.
C16_ReadsLastWrite ==
  /\ op = "read_profile" =>
       /\ exc = NoExc
       /\ IF files[args.logdir].foreign \/ written[args.logdir] = <<>>
          THEN ret = PyNone
          ELSE ret = written[args.logdir][1]
  /\ (op \in {"write_profile", "set_default_profile"} /\ exc = NoExc) =>
       (files[args.logdir].dir /\ files[args.logdir].exists)

\* C17: create_profile and set_default_profile take default_y_axis_scale and
\* default_x_axis_scale; a valid value is stored under defaultYAxisScale or
\* defaultXAxisScale, and the key is absent when the argument is None or not
\* given.
LegacyScaleKeys ==
  {<<"default_y_axis_scale", "defaultYAxisScale">>,
   <<"default_x_axis_scale", "defaultXAxisScale">>}

C17_DefaultAxisScaleKwargs ==
  (/\ op \in {"create_profile", "set_default_profile"}
   /\ DOMAIN args.kw \subseteq {k[1] : k \in LegacyScaleKeys}) =>
    /\ exc = NoExc
    /\ \A k \in LegacyScaleKeys :
         IF k[1] \in DOMAIN args.kw /\ args.kw[k[1]] # PyNone
         THEN HasValue(ProfileData, k[2], args.kw[k[1]])
         ELSE ~has_key(ProfileData, k[2])

\* The names of the axis scales.
ScaleNames == {PyStr("linear"), PyStr("log10"), PyStr("symlog10")}

\* The keyword arguments hold a global scale or a per-tag scale that is no
\* scale name, or a per-tag axis key other than 'y' and 'x'.
BadAxisScales(kw) ==
  \/ \E g \in {"y_axis_scale", "x_axis_scale"} :
       g \in DOMAIN kw /\ kw[g] # PyNone /\ kw[g] \notin ScaleNames
  \/ /\ "tag_axis_scales" \in DOMAIN kw
     /\ kw.tag_axis_scales # PyNone
     /\ \E i \in 1..Len(kw.tag_axis_scales.items) :
          \E j \in 1..Len(kw.tag_axis_scales.items[i].items) :
            \E axis \in {kw.tag_axis_scales.items[i].items[j]} :
              axis.key \notin {"y", "x"} \/ Value(axis) \notin ScaleNames

\* C18: create_profile given a bad axis scale raises ValueError and returns
\* no profile; set_default_profile given one raises ValueError too and
\* leaves the log directory as it was, without even the .tensorboard
\* directory made.
C18_Step ==
  (/\ op' \in {"create_profile", "set_default_profile"}
   /\ DOMAIN args'.kw \subseteq create_profile_params
   /\ BadAxisScales(args'.kw)) =>
    /\ exc' = "ValueError"
    /\ ret' = <<>>
    /\ files' = files
    /\ written' = written

C19_UniqueIds ==
  /\ _superimposed_card_counter = Len(cards)
  /\ \A k \in 1..Len(cards) :
       cards[k].id = "superimposed-" \o ToString(cards[k].now) \o "-" \o ToString(k)
  /\ \A i, j \in 1..Len(cards) : i # j => cards[i].id # cards[j].id

\* Two cards were made within the same millisecond, with the same title.
C19_Witness ==
  /\ op = "create_superimposed_card"
  /\ Len(cards) >= 2
  /\ cards[Len(cards)].now = cards[Len(cards) - 1].now
  /\ args.title = PyStr("Loss")
  /\ _superimposed_card_counter = 2

AliasImporters == {i \in 1..Len(meta_path) : meta_path[i] = AliasImporter}

\* A call of install() made right after another, or with the alias finder
\* already in sys.meta_path, leaves sys.meta_path as it was.
C20_Step ==
  (/\ op' = "install"
   /\ installs' = installs + 1
   /\ op = "install" \/ AliasImporters # {})
  => meta_path' = meta_path

\* C20: install() is safe to call more than once: whatever is imported,
\* removed or added between the calls, sys.meta_path never holds more than
\* one _AliasImporter, and a second call leaves sys.meta_path unchanged.
C20_InstallOnce ==
  /\ [](Cardinality(AliasImporters) <= 1)
  /\ [][C20_Step]_vars

\* install() has been called a second time, after another library put its
\* finder in front of the alias finder and the tensorboard entry of
\* sys.modules was removed: the one alias finder is still there.
C20_Witness ==
  /\ op = "install"
  /\ installs >= 2
  /\ exc = NoExc
  /\ Cardinality(AliasImporters) = 1
  /\ meta_path[1] = "OtherFinder"
  /\ <<_PREFIX>> \notin DOMAIN sys_modules
  /\ site_packages = {_TARGET}

\* C21: once "import tensorbored" or "import tensorbored.torch" has run in
\* a process without the real tensorboard, install() has been called, an
\* _AliasImporter is in sys.meta_path and "import tensorboard" gives the
\* tensorbored package.
C21_AliasAtInit ==
  (/\ op = "import"
   /\ args \in {<<_TARGET>>, <<_TARGET, "torch">>}
   /\ _PREFIX \notin site_packages)
  => /\ installs >= 1
     /\ AliasImporters # {}
     /\ <<_TARGET>> \in DOMAIN sys_modules
     /\ resolve(<<_PREFIX>>, meta_path, sys_modules, site_packages)
          = sys_modules[<<_TARGET>>]

AliasKeys(modules) == {key \in DOMAIN modules : key[1] = _PREFIX}

\* Every alias entry of sys.modules that holds a module holds the module of
\* its counterpart under _TARGET.
SameObjects ==
  \A key \in AliasKeys(sys_modules) :
    sys_modules[key] # NoneModule
    => /\ real_name(key) \in DOMAIN sys_modules
       /\ sys_modules[key] = sys_modules[real_name(key)]

\* _AliasImporter.find_spec leaves the alias entries of sys.modules as they
\* are, whatever name it is asked for.
FindSpecWritesNoAlias ==
  \A fullname \in ImportNames :
    \E found \in {_AliasImporter_find_spec(fullname, meta_path, sys_modules,
                                           site_packages)} :
      /\ AliasKeys(found.sys_modules) = AliasKeys(sys_modules)
      /\ \A key \in AliasKeys(sys_modules) :
           found.sys_modules[key] = sys_modules[key]

\* C22: with the alias installed, every tensorboard entry of sys.modules,
\* copied at install time or imported later through the alias finder, is
\* the same module object as the tensorbored entry of the corresponding
\* name, and find_spec itself never writes sys.modules[fullname].
C22_SameModuleObject ==
  /\ AliasImporters # {} => SameObjects
  /\ FindSpecWritesNoAlias

\* tensorboard was copied by install() and tensorboard.plugins has just been
\* imported through the alias finder.
C22_Witness ==
  /\ op = "import"
  /\ args = <<_PREFIX, "plugins">>
  /\ exc = NoExc
  /\ AliasImporters # {}
  /\ <<_PREFIX>> \in DOMAIN sys_modules
  /\ sys_modules[<<_PREFIX>>] = Module(<<_TARGET>>)
  /\ sys_modules[<<_PREFIX, "plugins">>] = Module(<<_TARGET, "plugins">>)

\* The palette of a call: the colours of the triples it handed to
\* _oklch_to_hex, in order.
HandedPalette == [i \in 1..Len(fwd) |-> _oklch_to_hex(fwd[i][1], fwd[i][2], fwd[i][3])]

LastOccurrence(run_ids, i) == \A j \in (i + 1)..Len(run_ids) : run_ids[j] # run_ids[i]

\* C23: colors_for_runs generates its palette for n = len(run_ids),
\* duplicates included, and pairs by position: the identifier at index i
\* maps to the i-th colour, an identifier that occurs more than once keeps
\* the colour of its last occurrence, and the mapping then has fewer than
\* n entries.
C23_PositionalPairing ==
  (op = "colors_for_runs" /\ exc = NoExc) =>
    /\ Len(fwd) = Len(args.run_ids)
    /\ \A i \in 1..Len(args.run_ids) :
         /\ args.run_ids[i] \in DOMAIN ret
         /\ LastOccurrence(args.run_ids, i)
              => ret[args.run_ids[i]] = HandedPalette[i]
    /\ (\E i \in 1..Len(args.run_ids) : ~LastOccurrence(args.run_ids, i))
         => Cardinality(DOMAIN ret) < Len(args.run_ids)
    /\ (\A i \in 1..Len(args.run_ids) : LastOccurrence(args.run_ids, i))
         => Cardinality(DOMAIN ret) = Len(args.run_ids)

\* colors_for_runs(["b", "a", "a", "b"]) has returned two entries taken from
\* a palette of four colours, a with the third colour and b with the fourth.
C23_Witness ==
  /\ op = "colors_for_runs"
  /\ exc = NoExc
  /\ args.run_ids = <<"b", "a", "a", "b">>
  /\ Len(fwd) = 4
  /\ DOMAIN ret = {"a", "b"}
  /\ ret["a"] = HandedPalette[3]
  /\ ret["b"] = HandedPalette[4]
  /\ ret["a"] # HandedPalette[2]
  /\ ret["b"] # HandedPalette[1]

\* C24: no palette generator divides by zero for n >= 1.  With n = 1 the
\* varied and the sequential generator use t = 0 and the diverging one
\* takes the midpoint branch; in palette_diverging the branch i < mid is
\* entered only with mid > 0 and the branch i > mid only with n - 1 > mid.
C24_NoZeroDivision ==
  /\ (op \in GeneratorOps /\ args.n >= 1) => exc = NoExc
  /\ (op = "sample_colors_varied" /\ args.n = 1) =>
       fwd = << <<args.l_min + (args.l_max - args.l_min), args.c_min, 0>> >>
  /\ (op = "palette_sequential" /\ args.n = 1) =>
       fwd = << <<900000, 80000, args.hue>> >>
  /\ (op = "palette_diverging" /\ args.n = 1) =>
       fwd = << <<900000, 0, 0>> >>
  /\ (op = "palette_diverging" /\ args.n >= 1) =>
       \A i \in 0..(args.n - 1) :
         /\ Real(i) < diverging_mid(args.n) => diverging_mid(args.n) > 0
         /\ Real(i) > diverging_mid(args.n)
              => Real(args.n - 1) > diverging_mid(args.n)

\* palette_sequential(1) has returned its one colour, computed with t = 0.
C24_Witness ==
  /\ op = "palette_sequential"
  /\ args.n = 1
  /\ exc = NoExc
  /\ Len(ret) = 1
  /\ fwd[1] = <<900000, 80000, args.hue>>

\* The two sides of a palette compute the same real number by different
\* expressions; each rounds its steps, so the results agree to within the
\* rounding of two steps.
Rounding == 2
Near(a, b) == a - b <= Rounding /\ b - a <= Rounding

\* C25: palette_diverging is symmetric about mid = (n - 1) / 2: index i
\* and index n - 1 - i use the same lightness and chroma (as real numbers,
\* so equal up to the rounding of the arithmetic), the indices below
\* mid use hue_low and those above use hue_high, the two ends (n >= 2) use
\* lightness 0.45 and chroma 0.18, and an index equal to mid exists only
\* for odd n and is the only one with lightness 0.9 and chroma 0.
C25_DivergingSymmetric ==
  (op = "palette_diverging" /\ args.n >= 1 /\ exc = NoExc) =>
    /\ Len(fwd) = args.n
    /\ \A k \in 1..args.n :
         /\ Near(fwd[k][1], fwd[args.n + 1 - k][1])
         /\ Near(fwd[k][2], fwd[args.n + 1 - k][2])
         /\ 2 * (k - 1) < args.n - 1 => fwd[k][3] = args.hue_low
         /\ 2 * (k - 1) > args.n - 1 => fwd[k][3] = args.hue_high
         /\ 2 * (k - 1) = args.n - 1 <=> (fwd[k][1] = 900000 /\ fwd[k][2] = 0)
    /\ args.n >= 2 =>
         /\ <<fwd[1][1], fwd[1][2]>> = <<450000, 180000>>
         /\ <<fwd[args.n][1], fwd[args.n][2]>> = <<450000, 180000>>
    /\ (\E k \in 1..args.n : 2 * (k - 1) = args.n - 1) <=> args.n % 2 = 1

\* palette_diverging(6) has returned: no index is the midpoint, the third
\* and the fourth colour share lightness and chroma and differ in hue.
C25_Witness ==
  /\ op = "palette_diverging"
  /\ exc = NoExc
  /\ args.n = 6
  /\ <<fwd[3][1], fwd[3][2]>> = <<fwd[4][1], fwd[4][2]>>
  /\ fwd[3][1] < 900000
  /\ fwd[3][3] = args.hue_low
  /\ fwd[4][3] = args.hue_high
  /\ args.hue_low # args.hue_high

\* t = i / max(n - 1, 1) of the iteration i of a loop over range(n).
LoopT(i, n) == DivFix[Real(i), Real(max(n - 1, 1))]

\* C26: in sample_colors_varied with l_min <= l_max and c_min <= c_max and
\* n >= 1, an even i uses lightness l_min + (l_max - l_min)(1 - t/2) and
\* chroma c_min + (c_max - c_min) t, an odd i uses lightness
\* l_min + (l_max - l_min)(1/2 + t/2) and chroma c_max - (c_max - c_min) t/2;
\* every lightness lies between the midpoint (l_min + l_max)/2 and l_max,
\* it is l_min only when l_min = l_max, and every chroma lies in
\* [c_min, c_max].
C26_VariedRanges ==
  (/\ op = "sample_colors_varied"
   /\ args.n >= 1
   /\ args.l_min <= args.l_max
   /\ args.c_min <= args.c_max) =>
    /\ exc = NoExc
    /\ Len(fwd) = args.n
    /\ \A k \in 1..args.n :
         /\ (k - 1) % 2 = 0 =>
              /\ fwd[k][1] = args.l_min
                   + MulFix[args.l_max - args.l_min,
                            Scale - MulFix[LoopT(k - 1, args.n), 500000]]
              /\ fwd[k][2] = args.c_min
                   + MulFix[args.c_max - args.c_min, LoopT(k - 1, args.n)]
         /\ (k - 1) % 2 = 1 =>
              /\ fwd[k][1] = args.l_min
                   + MulFix[args.l_max - args.l_min,
                            500000 + MulFix[LoopT(k - 1, args.n), 500000]]
              /\ fwd[k][2] = args.c_max
                   - MulFix[MulFix[args.c_max - args.c_min,
                                   LoopT(k - 1, args.n)], 500000]
         /\ 2 * fwd[k][1] >= args.l_min + args.l_max
         /\ fwd[k][1] <= args.l_max
         /\ fwd[k][1] = args.l_min => args.l_min = args.l_max
         /\ fwd[k][2] >= args.c_min
         /\ fwd[k][2] <= args.c_max

\* sample_colors_varied(3, (0.3, 0.9), (0.05, 0.3)) has returned: the last
\* colour, at t = 1, uses the midpoint lightness 0.6 and the chroma 0.3, the
\* second, at t = 1/2, uses lightness 0.75 and chroma 0.2375.
C26_Witness ==
  /\ op = "sample_colors_varied"
  /\ exc = NoExc
  /\ args.n = 3
  /\ <<args.l_min, args.l_max, args.c_min, args.c_max>>
       = <<300000, 900000, 50000, 300000>>
  /\ <<fwd[1][1], fwd[1][2]>> = <<900000, 50000>>
  /\ <<fwd[2][1], fwd[2][2]>> = <<750000, 237500>>
  /\ <<fwd[3][1], fwd[3][2]>> = <<600000, 300000>>

\* C27: palette_sequential is a monotonic ramp at constant hue: for n >= 2
\* the lightness strictly decreases and the chroma strictly increases with
\* the index, from (0.9, 0.08) at index 0 to (0.35, 0.20) at index n - 1;
\* for n = 1 the one colour uses (0.9, 0.08).
C27_SequentialRamp ==
  (op = "palette_sequential" /\ args.n >= 1 /\ exc = NoExc) =>
    /\ Len(fwd) = args.n
    /\ \A k \in 1..args.n : fwd[k][3] = args.hue
    /\ <<fwd[1][1], fwd[1][2]>> = <<900000, 80000>>
    /\ args.n >= 2 =>
         <<fwd[args.n][1], fwd[args.n][2]>> = <<350000, 200000>>
    /\ \A k \in 1..(args.n - 1) :
         /\ fwd[k][1] > fwd[k + 1][1]
         /\ fwd[k][2] < fwd[k + 1][2]

\* palette_sequential(5) has returned a ramp whose middle colour uses
\* lightness 0.625 and chroma 0.14.
C27_Witness ==
  /\ op = "palette_sequential"
  /\ exc = NoExc
  /\ args.n = 5
  /\ Len(ret) = 5
  /\ <<fwd[3][1], fwd[3][2]>> = <<625000, 140000>>
  /\ <<fwd[5][1], fwd[5][2]>> = <<350000, 200000>>

\* The calls cm[i] and cm(i) made on the same colours with the same index.
SameIndexReads ==
  {pair \in log \X log :
     /\ pair[1].op = "ColorMap.__getitem__"
     /\ pair[2].op = "ColorMap.__call__"
     /\ pair[1].self = pair[2].self
     /\ pair[1].args = pair[2].args}

\* C28: on a ColorMap of n >= 1 colours and an index -n <= i < n, cm[i]
\* and cm(i) return the same colour; for any other index, and for every
\* index of an empty ColorMap, cm[i] raises IndexError while cm(i) returns
\* a colour: the wrapped one, or '#808080' when the ColorMap is empty.
C28_IndexAgreesWithCall ==
  \A pair \in SameIndexReads :
    IF /\ 0 - Len(pair[1].self) <= pair[1].args.index
       /\ pair[1].args.index < Len(pair[1].self)
    THEN /\ pair[1].exc = NoExc
         /\ pair[2].exc = NoExc
         /\ pair[1].ret = pair[2].ret
    ELSE /\ pair[1].exc = "IndexError"
         /\ pair[2].exc = NoExc
         /\ pair[2].ret =
              IF pair[2].self = <<>> THEN Gray
              ELSE pair[2].self[(pair[2].args.index % Len(pair[2].self)) + 1]

\* cm[-1] has returned the colour that cm(-1) returned before on the same
\* three colours, the last one.
C28_Witness ==
  /\ op = "ColorMap.__getitem__"
  /\ args.index = 0 - 1
  /\ exc = NoExc
  /\ Len(cm._colors) = 3
  /\ ret = cm._colors[3]
  /\ \E pair \in SameIndexReads :
       /\ pair[1].args = args
       /\ pair[1].self = cm._colors
       /\ pair[2].ret = ret

\* C29: when create_superimposed_card is called from two threads whose
\* steps interleave, the ids returned are still different and no increment
\* is lost: once k calls have completed and none is under way, the counter
\* is k.
C29_ThreadSafeIds ==
  /\ \A i, j \in 1..Len(cards) : i # j => cards[i].id # cards[j].id
  /\ InCall = {} => _superimposed_card_counter = Len(cards)

\* The probe of a real tensorboard, made without the alias finders: what
\* importlib.util.find_spec("tensorboard") does in the state.
RealFound ==
  find_spec(<<_PREFIX>>, SelectSeq(meta_path, IsNoAliasImporter),
            sys_modules, site_packages)

\* A call of install() that finds a real tensorboard, or in which find_spec
\* raises, leaves sys.meta_path and sys.modules as they were.
C30_Step ==
  (/\ op' = "install"
   /\ installs' = installs + 1
   /\ RealFound \in {"spec", "ValueError"})
  => /\ meta_path' = meta_path
     /\ sys_modules' = sys_modules
     /\ exc' = IF RealFound = "spec" THEN NoExc ELSE "ValueError"

\* C30: when a real tensorboard package is found, install() changes
\* nothing: no _AliasImporter is added to sys.meta_path and no tensorboard
\* key is added to sys.modules; and the probe puts sys.meta_path back to its
\* previous contents and order, whether find_spec returns or raises.
C30_RealLeftAlone ==
  /\ [][C30_Step]_vars
  /\ [](_real_tensorboard_is_installed(meta_path, sys_modules,
                                       site_packages).meta_path = meta_path)

\* install() has returned in a process that has the real tensorboard and
\* has imported it: no alias finder, and no module under the alias name
\* that is a tensorbored module.
C30_Witness ==
  /\ op = "install"
  /\ exc = NoExc
  /\ _PREFIX \in site_packages
  /\ sys_modules[<<_TARGET>>] = Module(<<_TARGET>>)
  /\ <<_PREFIX, "plugins">> \in DOMAIN sys_modules
  /\ sys_modules[<<_PREFIX, "plugins">>] = Module(<<_PREFIX, "plugins">>)
  /\ AliasImporters = {}
  /\ meta_path[1] = "OtherFinder"

====
